---- MODULE Spec2Model ----
(***************************************************************************)
(* A model of the Slang IR visualiser: the pass segmenter (parsePasses),   *)
(* the IR graph builder (parseSlangIR) and the operand splitter            *)
(* (parseOperands) of src/services/irParser.ts, the explanation service    *)
(* (explainIRNode, analyzeFlow), the pass and parse state of the App        *)
(* component of src/App.tsx, the explanation of the InfoPanel component     *)
(* and the search of the CodeEditor component of src/components.            *)
(*                                                                         *)
(* Text is a sequence of one-character strings, so that trimming,          *)
(* splitting, joining and the regular expressions of the source are        *)
(* computed character by character, as the source computes them.           *)
(***************************************************************************)
EXTENDS Integers, Sequences, FiniteSets, TLC

VARIABLES
    input,              \* the text handed to the function under study
    pc,                 \* "start" | "scan" | "done"; in a component, the handler that ran last
    bodyA, bodyB,       \* the two bodies a round-trip dump is built from
    passes,             \* parsePasses: the list returned
    lines,              \* parseSlangIR: input.split('\n')
    index,              \* parseSlangIR: number of lines already scanned
    nodes,              \* parseSlangIR: the node map, in insertion order
    edges,              \* parseSlangIR: the edge list
    functions,          \* parseSlangIR: the function list
    pendingAttributes,  \* parseSlangIR: attributes not yet attached
    currentBlockId,     \* parseSlangIR: the open block, or Null
    operands,           \* parseOperands: the list returned
    results,            \* the calls of parseSlangIR that returned: text, graph
    selectedPassIndex,  \* App: index of the pass shown
    parsedData,         \* App: the graph shown, or Null
    timers,             \* App: the pending re-parse timers, oldest first
    globalAnalysis,     \* App: the analysis shown, or Null
    isAnalyzing,        \* App: an analysis is under way
    inFlight,           \* App: the texts of the analyzeFlow calls in flight
    reply,              \* what the last call of explainIRNode returned
    selectedNode,       \* InfoPanel: the node shown (a prop), or Null
    explanation,        \* InfoPanel: the explanation shown, or Null
    loading,            \* InfoPanel: an explanation is under way
    searchTerm,         \* CodeEditor: the text of the search box
    currentMatchIndex   \* CodeEditor: the match the search stands at

vars == <<input, pc, bodyA, bodyB, passes, lines, index, nodes, edges,
          functions, pendingAttributes, currentBlockId, operands, results,
          selectedPassIndex, parsedData, timers, globalAnalysis,
          isAnalyzing, inFlight, reply, selectedNode, explanation, loading,
          searchTerm, currentMatchIndex>>

viewVars == <<selectedNode, explanation, loading, searchTerm,
              currentMatchIndex>>

appVars  == <<selectedPassIndex, parsedData, timers, globalAnalysis,
              isAnalyzing, inFlight, reply>>

irVars   == <<lines, index, nodes, edges, functions, pendingAttributes,
              currentBlockId>>

(***************************************************************************)
(* Bounds of the model.                                                    *)
(***************************************************************************)
MaxPassLines == 4       \* lines of a dump handed to parsePasses
MaxBodyLines == 2       \* lines of a body of a round-trip dump
MaxIRLines   == 3       \* lines of a pass text handed to parseSlangIR
MaxArgTokens == 4       \* tokens of an argument string for parseOperands
MaxNameTokens == 4      \* tokens of a name line after its ###
MaxCallLines == 1       \* lines of a text in a series of parseSlangIR calls
MaxCalls     == 3       \* calls of parseSlangIR in a series

(***************************************************************************)
(* Characters and strings.                                                 *)
(***************************************************************************)
LF == "\n"
CR == "\r"

\* JavaScript's undefined / null, distinct from every text.
Undefined == <<"undefined">>
Null      == <<"null">>

\* null where objects are held
NullRecord == [null |-> TRUE]

Min(S) == CHOOSE x \in S : \A y \in S : x <= y
Max(S) == CHOOSE x \in S : \A y \in S : x >= y

\* \s of a JavaScript regular expression and the white space of trim()
IsSpace(c) == c \in {" ", "\t", "\n", "\r"}

\* \w of a JavaScript regular expression
WordChars ==
    {"a","b","c","d","e","f","g","h","i","j","k","l","m","n","o","p","q",
     "r","s","t","u","v","w","x","y","z",
     "A","B","C","D","E","F","G","H","I","J","K","L","M","N","O","P","Q",
     "R","S","T","U","V","W","X","Y","Z",
     "0","1","2","3","4","5","6","7","8","9","_"}
IsWord(c) == c \in WordChars

\* . of a JavaScript regular expression: anything but a line terminator
IsDot(c) == c \notin {"\n", "\r"}

\* String.prototype.trim
Trim(s) ==
    LET keep == {k \in 1..Len(s) : ~IsSpace(s[k])}
    IN  IF keep = {} THEN <<>> ELSE SubSeq(s, Min(keep), Max(keep))

IsBlank(s) == Trim(s) = <<>>

\* String.prototype.startsWith / endsWith / includes
StartsWith(s, p) == Len(s) >= Len(p) /\ SubSeq(s, 1, Len(p)) = p
EndsWith(s, p) ==
    Len(s) >= Len(p) /\ SubSeq(s, Len(s) - Len(p) + 1, Len(s)) = p
Includes(s, p) ==
    \E k \in 1..(Len(s) - Len(p) + 1) : SubSeq(s, k, k + Len(p) - 1) = p

\* input.replace(/\r\n/g, '\n'): every \r that a \n follows is dropped.
ReplaceCRLF(s) ==
    LET placed == [k \in 1..Len(s) |-> [at |-> k, char |-> s[k]]]
        kept   == SelectSeq(placed,
                            LAMBDA c : ~(/\ c.char = CR
                                         /\ c.at < Len(s)
                                         /\ s[c.at + 1] = LF))
    IN  [n \in 1..Len(kept) |-> kept[n].char]

\* String.prototype.split('\n'): at least one line, possibly empty
RECURSIVE SplitLines(_)
SplitLines(s) ==
    LET nl == {k \in 1..Len(s) : s[k] = LF}
    IN  IF nl = {} THEN <<s>>
        ELSE <<SubSeq(s, 1, Min(nl) - 1)>>
             \o SplitLines(SubSeq(s, Min(nl) + 1, Len(s)))

\* Array.prototype.join('\n')
RECURSIVE JoinLines(_)
JoinLines(ls) ==
    IF ls = <<>> THEN <<>>
    ELSE IF Len(ls) = 1 THEN ls[1]
    ELSE ls[1] \o <<LF>> \o JoinLines(Tail(ls))

Marker      == <<"#","#","#">>
SourceName  == <<"S","o","u","r","c","e">>
UnnamedPass == <<"U","n","n","a","m","e","d"," ","P","a","s","s">>

(***************************************************************************)
(* parsePasses                                                             *)
(***************************************************************************)

\* The name of the pass a name line opens.
PassName(nameLine) ==
    LET stripped == IF StartsWith(nameLine, Marker)
                    THEN SubSeq(nameLine, 4, Len(nameLine)) ELSE nameLine
        name     == Trim(stripped)
        cut      == IF EndsWith(name, <<":">>)
                    THEN SubSeq(name, 1, Len(name) - 1) ELSE name
    IN  IF cut = <<>> THEN UnnamedPass ELSE cut

\* A slip: a named pass with a blank body is not pushed either.
FlushNonBlankOnly(ps, buf, found) ==
    \E k \in 1..Len(buf) : ~IsBlank(buf[k])

\* Whether the buffer collected before a pass boundary is pushed as a pass.
FlushAtBoundary(ps, buf, found) ==
    /\ found \/ (\E k \in 1..Len(buf) : ~IsBlank(buf[k]))
    /\ ~(Len(ps) = 0 /\ ~found /\ \A k \in 1..Len(buf) : IsBlank(buf[k]))

\* Whether the buffer left at the end of the input is pushed as a pass.
FlushAtEnd(buf, found) ==
    /\ Len(buf) > 0
    /\ ~(found /\ \A k \in 1..Len(buf) : IsBlank(buf[k]))

\* The loop over the lines; i is the 1-based position of lines[i-1].
RECURSIVE PassLoop(_, _, _, _, _, _)
PassLoop(ls, i, ps, buf, name, found) ==
    IF i > Len(ls)
    THEN [passes |-> ps, currentBuffer |-> buf, currentName |-> name,
          foundAnyPass |-> found]
    ELSE IF Trim(ls[i]) = Marker
         THEN IF i + 1 <= Len(ls) /\ StartsWith(Trim(ls[i + 1]), Marker)
              THEN PassLoop(ls, i + 2,
                            IF FlushAtBoundary(ps, buf, found)
                            THEN Append(ps, [name |-> name,
                                             content |-> JoinLines(buf)])
                            ELSE ps,
                            <<>>, PassName(Trim(ls[i + 1])), TRUE)
              ELSE PassLoop(ls, i + 1, ps, buf, name, found)
         ELSE PassLoop(ls, i + 1, ps, Append(buf, ls[i]), name, found)

\* The passes pushed by the loop and by the flush of the final buffer.
FlushedPasses(text) ==
    LET ls  == SplitLines(ReplaceCRLF(text))
        end == PassLoop(ls, 1, <<>>, <<>>, SourceName, FALSE)
    IN  IF FlushAtEnd(end.currentBuffer, end.foundAnyPass)
        THEN Append(end.passes,
                    [name |-> end.currentName,
                     content |-> JoinLines(end.currentBuffer)])
        ELSE end.passes

\* A slip: the fallback for an empty pass list left out.
parsePassesNoFallback(text) == FlushedPasses(text)

parsePasses(text) ==
    IF Len(FlushedPasses(text)) = 0
    THEN <<[name |-> SourceName, content |-> text]>>
    ELSE FlushedPasses(text)

(***************************************************************************)
(* Inputs of parsePasses.                                                  *)
(***************************************************************************)
SeqsUpTo(S, n) == UNION {[1..k -> S] : k \in 1..n}

\* Lines a dump is made of; a line that ends in \r is a line of a CRLF file.
PassLines ==
    { <<"#","#","#">>,                      \* ###
      <<"#","#","#","A">>,                  \* ###A
      <<"#","#","#"," ","B",":">>,          \* ### B:
      <<"x">>,                              \* x
      <<>>,                                 \* (empty line)
      <<"y","\r">> }                        \* y, CRLF-terminated

PassInputs == {JoinLines(ls) : ls \in SeqsUpTo(PassLines, MaxPassLines)}

\* Lines a body of a round-trip dump is made of.
BodyLines ==
    { <<"x">>,                              \* x
      <<>>,                                 \* (empty line)
      <<" ">>,                              \* (blank line)
      <<"y","\r">>,                         \* y, CRLF-terminated
      <<" ","#","#","#">>,                  \* an indented ###
      <<"#","#","#","C">> }                 \* ###C

Bodies == {JoinLines(ls) : ls \in SeqsUpTo(BodyLines, MaxBodyLines)}

\* ###\n###A\n<bodyA>\n###\n###B\n<bodyB>\n###
RoundTripDump(a, b) ==
    <<"#","#","#","\n","#","#","#","A","\n">> \o a
    \o <<"\n","#","#","#","\n","#","#","#","B","\n">> \o b
    \o <<"\n","#","#","#">>

\* The App component before it is mounted: the initial values of useState.
IdleApp ==
    /\ selectedPassIndex = 0
    /\ parsedData = NullRecord
    /\ timers = <<>>
    /\ globalAnalysis = Null
    /\ isAnalyzing = FALSE
    /\ inFlight = <<>>
    /\ reply = NullRecord

\* A number of JavaScript, as far as the search needs one: an integer, or
\* NaN.
Num(i) == [nan |-> FALSE, value |-> i]
NaN == [nan |-> TRUE]

\* The state of InfoPanel and CodeEditor when they are not under study:
\* the initial values of their useState calls.
IdleView ==
    /\ selectedNode = NullRecord
    /\ explanation = Null
    /\ loading = FALSE
    /\ searchTerm = <<>>
    /\ currentMatchIndex = Num(0)

IdleIR ==
    /\ results = <<>>
    /\ lines = <<>>
    /\ index = 0
    /\ nodes = <<>>
    /\ edges = <<>>
    /\ functions = <<>>
    /\ pendingAttributes = <<>>
    /\ currentBlockId = Null

InitPasses ==
    /\ input \in PassInputs
    /\ pc = "start"
    /\ bodyA = <<>>
    /\ bodyB = <<>>
    /\ passes = <<>>
    /\ operands = <<>>
    /\ IdleIR
    /\ IdleApp
    /\ IdleView

InitRoundTrip ==
    /\ bodyA \in Bodies
    /\ bodyB \in Bodies
    /\ input = RoundTripDump(bodyA, bodyB)
    /\ pc = "start"
    /\ passes = <<>>
    /\ operands = <<>>
    /\ IdleIR
    /\ IdleApp
    /\ IdleView

\* A call of parsePasses on the input.
SegmentPasses ==
    /\ pc = "start"
    /\ passes' = parsePasses(input)
    /\ pc' = "done"
    /\ UNCHANGED <<input, bodyA, bodyB, operands, results>>
    /\ UNCHANGED irVars
    /\ UNCHANGED appVars
    /\ UNCHANGED viewVars

SpecPasses    == InitPasses /\ [][SegmentPasses]_vars
SpecRoundTrip == InitRoundTrip /\ [][SegmentPasses]_vars

(***************************************************************************)
(* Claims about parsePasses.                                               *)
(***************************************************************************)
PassA == <<"A">>
PassB == <<"B">>

\* Some line of the text begins with ###.
HasMarkerLine(text) ==
    \E k \in 1..Len(SplitLines(text)) : StartsWith(SplitLines(text)[k], Marker)

\* Some line of the text begins with ### once it is trimmed.
HasTrimmedMarkerLine(text) ==
    \E k \in 1..Len(SplitLines(text)) :
        StartsWith(Trim(SplitLines(text)[k]), Marker)

\* A body as it reads in a dump where a newline follows it, with every
\* CRLF (one made of a final \r and that newline included) turned into LF.
NormalisedBody(b) ==
    SubSeq(ReplaceCRLF(b \o <<LF>>), 1, Len(ReplaceCRLF(b \o <<LF>>)) - 1)

\* C2 as stated: for bodies with no line beginning with ###, the dump
\* ###\n###A\n<bodyA>\n###\n###B\n<bodyB>\n### segments into exactly the
\* passes ("A", bodyA) and ("B", bodyB), in that order.
C2_RoundTripAsStated ==
    (pc = "done" /\ ~HasMarkerLine(bodyA) /\ ~HasMarkerLine(bodyB))
        => passes = <<[name |-> PassA, content |-> bodyA],
                      [name |-> PassB, content |-> bodyB]>>

\* C2 amended: for bodies with no line that begins with ### once trimmed,
\* the dump segments into pass "A" with bodyA and, unless bodyB is all
\* blank, pass "B" with bodyB, each body with its CRLF line endings
\* normalised to LF; an all-blank bodyB yields no pass "B".
C2_RoundTrip ==
    (pc = "done" /\ ~HasTrimmedMarkerLine(bodyA)
                 /\ ~HasTrimmedMarkerLine(bodyB))
        => passes =
             IF IsBlank(bodyB)
             THEN <<[name |-> PassA, content |-> NormalisedBody(bodyA)]>>
             ELSE <<[name |-> PassA, content |-> NormalisedBody(bodyA)],
                    [name |-> PassB, content |-> NormalisedBody(bodyB)]>>

\* A two-line bodyA and a non-blank bodyB have been segmented into two passes.
C2_Witness ==
    /\ pc = "done"
    /\ ~HasTrimmedMarkerLine(bodyA) /\ ~HasTrimmedMarkerLine(bodyB)
    /\ Includes(bodyA, <<LF>>) /\ ~IsBlank(bodyB)
    /\ passes = <<[name |-> PassA, content |-> bodyA],
                  [name |-> PassB, content |-> bodyB]>>

\* C3 as stated: an input without any ### is returned as the single pass
\* "Source" whose content is the input, character for character.
C3_SourceVerbatim ==
    (pc = "done" /\ ~Includes(input, Marker))
        => passes = <<[name |-> SourceName, content |-> input]>>

\* The line at position i opens a pass: ### followed by a name line.
BoundaryAt(ls, i) ==
    /\ i + 1 <= Len(ls)
    /\ Trim(ls[i]) = Marker
    /\ StartsWith(Trim(ls[i + 1]), Marker)

\* Two pass boundaries with nothing but blank lines between them.
ConsecutiveBoundaries(ls) ==
    \E i \in 1..Len(ls) : \E j \in (i + 2)..Len(ls) :
        /\ BoundaryAt(ls, i)
        /\ BoundaryAt(ls, j)
        /\ \A k \in (i + 2)..(j - 1) : IsBlank(ls[k])

\* C4 as stated: two consecutive pass boundaries never make parsePasses
\* emit a pass whose content is empty or all blank.
C4_NoEmptyPassBetweenBoundaries ==
    (pc = "done" /\ ConsecutiveBoundaries(SplitLines(ReplaceCRLF(input))))
        => \A k \in 1..Len(passes) : ~IsBlank(passes[k].content)

\* C5: parsePasses returns at least one pass for every input, and for the
\* empty input exactly one pass, whose content is empty.
C5_NeverEmptyList ==
    pc = "done"
        => /\ Len(passes) >= 1
           /\ input = <<>> => (Len(passes) = 1 /\ passes[1].content = <<>>)

\* An input made of markers only has been answered by the fallback pass.
C5_Witness ==
    /\ pc = "done"
    /\ Includes(input, Marker)
    /\ passes = <<[name |-> SourceName, content |-> input]>>

(***************************************************************************)
(* parseOperands, processOperand, findAllReferences                        *)
(***************************************************************************)

\* The position after the longest run of \w characters that starts at i.
WordEnd(s, i) ==
    Min({k \in i..Len(s) : ~IsWord(s[k])} \cup {Len(s) + 1})

\* The position after the longest run of \s characters that starts at i.
SkipSpaces(s, i) ==
    Min({k \in i..Len(s) : ~IsSpace(s[k])} \cup {Len(s) + 1})

\* The positions where /%\w+/ matches: a sigil followed by a \w character.
RefStarts(s) ==
    {k \in 1..(Len(s) - 1) : s[k] = "%" /\ IsWord(s[k + 1])}

\* raw.match(/%(?:[\w\d]+)/): the first reference of the text, if any.
FirstReference(s) ==
    IF RefStarts(s) = {} THEN Undefined
    ELSE SubSeq(s, Min(RefStarts(s)), WordEnd(s, Min(RefStarts(s)) + 1) - 1)

\* A slip: the reference is taken to run to the end of the operand.
processOperandToEnd(raw) ==
    [raw |-> raw,
     refId |-> IF RefStarts(raw) = {} THEN Undefined
               ELSE SubSeq(raw, Min(RefStarts(raw)), Len(raw))]

processOperand(raw) == [raw |-> raw, refId |-> FirstReference(raw)]

\* A slip: a comma splits whatever the depth.
SplitsAtAnyDepth(char, depth) == char = ","

\* Whether the loop of parseOperands ends an operand at this character.
SplitsHere(char, depth) == char = "," /\ depth = 0

\* The loop of parseOperands; i is the 1-based position of rawArgs[i-1].
RECURSIVE OperandLoop(_, _, _, _, _)
OperandLoop(rawArgs, i, current, depth, ops) ==
    IF i > Len(rawArgs)
    THEN IF Trim(current) # <<>>
         THEN Append(ops, processOperand(Trim(current)))
         ELSE ops
    ELSE LET char == rawArgs[i]
             d    == IF char = "(" THEN depth + 1
                     ELSE IF char = ")" THEN depth - 1 ELSE depth
         IN  IF SplitsHere(char, d)
             THEN OperandLoop(rawArgs, i + 1, <<>>, d,
                              Append(ops, processOperand(Trim(current))))
             ELSE OperandLoop(rawArgs, i + 1, Append(current, char), d, ops)

parseOperands(rawArgs) ==
    IF rawArgs = <<>> \/ Trim(rawArgs) = <<>> THEN <<>>
    ELSE OperandLoop(rawArgs, 1, <<>>, 0, <<>>)

\* text.match(/%\w+/g): every reference of the text, left to right.
RECURSIVE MatchAllReferences(_, _)
MatchAllReferences(s, from) ==
    LET starts == {k \in RefStarts(s) : k >= from}
    IN  IF starts = {} THEN <<>>
        ELSE <<SubSeq(s, Min(starts), WordEnd(s, Min(starts) + 1) - 1)>>
             \o MatchAllReferences(s, WordEnd(s, Min(starts) + 1))

\* Array.from(new Set(matches)): first occurrences, in order.
Unique(seq) ==
    LET first == {k \in 1..Len(seq) : \A j \in 1..(k - 1) : seq[j] # seq[k]}
    IN  [n \in 1..Cardinality(first) |->
            seq[CHOOSE k \in first :
                    Cardinality({j \in first : j <= k}) = n]]

\* A slip: the matches are not passed through a Set, so a reference is
\* listed as often as it occurs.
EveryReference(text) ==
    IF text = <<>> THEN <<>> ELSE MatchAllReferences(text, 1)

findAllReferences(text) ==
    IF text = <<>> THEN <<>> ELSE Unique(MatchAllReferences(text, 1))

(***************************************************************************)
(* Inputs of parseOperands: argument strings made of a few tokens.         *)
(***************************************************************************)
ArgTokens ==
    { <<"%","3">>,                                          \* %3
      <<"m","a","k","e","V","e","c","t","o","r","(","0",","," ","0",")">>,
                                                            \* makeVector(0, 0)
      <<"0">>, <<",">>, <<" ">>, <<"(">>, <<")">> }

RECURSIVE Concat(_)
Concat(ts) == IF ts = <<>> THEN <<>> ELSE ts[1] \o Concat(Tail(ts))

ArgInputs ==
    {<<>>} \cup {Concat(ts) : ts \in SeqsUpTo(ArgTokens, MaxArgTokens)}

InitOperands ==
    /\ input \in ArgInputs
    /\ pc = "start"
    /\ bodyA = <<>>
    /\ bodyB = <<>>
    /\ passes = <<>>
    /\ operands = <<>>
    /\ IdleIR
    /\ IdleApp
    /\ IdleView

\* A call of parseOperands on the input.
SplitOperands ==
    /\ pc = "start"
    /\ operands' = parseOperands(input)
    /\ pc' = "done"
    /\ UNCHANGED <<input, bodyA, bodyB, passes, results>>
    /\ UNCHANGED irVars
    /\ UNCHANGED appVars
    /\ UNCHANGED viewVars

SpecOperands == InitOperands /\ [][SplitOperands]_vars

(***************************************************************************)
(* Inputs of parsePasses for the pass names: ###, a name line made of ###  *)
(* and a few tokens, and a body of one line.                               *)
(***************************************************************************)
NameTokens == { <<" ">>, <<":">>, <<"B">> }

NameLines ==
    {Marker} \cup {Marker \o Concat(ts) :
                      ts \in SeqsUpTo(NameTokens, MaxNameTokens)}

NameDump(nameLine) == JoinLines(<<Marker, nameLine, <<"x">>>>)

InitNames ==
    /\ input \in {NameDump(nameLine) : nameLine \in NameLines}
    /\ pc = "start"
    /\ bodyA = <<>>
    /\ bodyB = <<>>
    /\ passes = <<>>
    /\ operands = <<>>
    /\ IdleIR
    /\ IdleApp
    /\ IdleView

SpecNames == InitNames /\ [][SegmentPasses]_vars

\* The name line of the dump, as written.
NameLineOf(text) == SplitLines(text)[2]

WithoutMarker(line) ==
    IF StartsWith(line, Marker) THEN SubSeq(line, 4, Len(line)) ELSE line

WithoutColon(name) ==
    IF EndsWith(name, <<":">>) THEN SubSeq(name, 1, Len(name) - 1) ELSE name

\* The name line without white space at its ends, without its leading ###
\* and without one trailing colon, and what is left trimmed.
NameRemainder(line) == Trim(WithoutColon(Trim(WithoutMarker(Trim(line)))))

\* C16: the name of the pass a boundary opens has no white space at its
\* ends; it is the name line with the leading ### and one trailing colon
\* removed, and "Unnamed Pass" when nothing is left of the name line.
C16_PassNaming ==
    pc = "done"
        => /\ Len(passes) = 1
           /\ Trim(passes[1].name) = passes[1].name
           /\ passes[1].name =
                 IF NameRemainder(NameLineOf(input)) = <<>> THEN UnnamedPass
                 ELSE NameRemainder(NameLineOf(input))

(***************************************************************************)
(* Claims about parseOperands.                                             *)
(***************************************************************************)

\* The parenthesis depth at position k: openings less closings up to k.
DepthAt(s, k) ==
    Cardinality({j \in 1..k : s[j] = "("})
        - Cardinality({j \in 1..k : s[j] = ")"})

DepthZeroCommas(s) == {k \in 1..Len(s) : s[k] = "," /\ DepthAt(s, k) = 0}

\* The n-th segment (n = 1, 2, ...) the depth-zero commas cut the text into.
Segment(s, n) ==
    LET cuts  == DepthZeroCommas(s)
        start == IF n = 1 THEN 1
                 ELSE 1 + CHOOSE k \in cuts :
                              Cardinality({j \in cuts : j <= k}) = n - 1
        stop  == IF n = Cardinality(cuts) + 1 THEN Len(s)
                 ELSE (CHOOSE k \in cuts :
                           Cardinality({j \in cuts : j <= k}) = n) - 1
    IN  SubSeq(s, start, stop)

MakeVectorArgs ==
    <<"m","a","k","e","V","e","c","t","o","r","(","0",","," ","0",")",
      ","," ","%","3">>                         \* makeVector(0, 0), %3

\* C8: parseOperands splits only at the commas at parenthesis depth zero:
\* when the last segment is not blank there is one operand per segment,
\* each with the trimmed segment as raw, so as many operands as depth-zero
\* commas plus one; and `makeVector(0, 0), %3` splits into the operand
\* `makeVector(0, 0)` without reference and the operand `%3` referencing %3.
C8_DepthZeroSplit ==
    pc = "done"
        => /\ ~IsBlank(Segment(input, Cardinality(DepthZeroCommas(input)) + 1))
              => /\ Len(operands) = Cardinality(DepthZeroCommas(input)) + 1
                 /\ \A n \in 1..Len(operands) :
                        operands[n].raw = Trim(Segment(input, n))
           /\ input = MakeVectorArgs
              => operands =
                   <<[raw |-> SubSeq(MakeVectorArgs, 1, 16),
                      refId |-> Undefined],
                     [raw |-> <<"%","3">>, refId |-> <<"%","3">>]>>

\* `makeVector(0, 0), %3` has been split into two operands.
C8_Witness ==
    /\ pc = "done"
    /\ input = MakeVectorArgs
    /\ Len(operands) = 2
    /\ operands[1].refId = Undefined
    /\ operands[2].refId = <<"%","3">>

(***************************************************************************)
(* The regular expressions of parseSlangIR, each as the match the          *)
(* backtracking engine finds: the leftmost start, greedy quantifiers as    *)
(* long and lazy ones as short as the rest of the pattern allows.          *)
(* A match is a record with matched = TRUE and the captured groups.        *)
(***************************************************************************)
NoMatch == [matched |-> FALSE]

\* An unanchored pattern is tried at every start from the left: the match
\* at the first start where there is one, at[p] being the match at start p.
FirstMatch(at) ==
    IF \E p \in DOMAIN at : at[p].matched
    THEN at[Min({p \in DOMAIN at : at[p].matched})]
    ELSE NoMatch

\* The literal lit stands at position p.
LitAt(s, p, lit) ==
    p + Len(lit) - 1 <= Len(s) /\ SubSeq(s, p, p + Len(lit) - 1) = lit

\* The position after the longest run of . characters that starts at i.
DotEnd(s, i) ==
    Min({k \in i..Len(s) : ~IsDot(s[k])} \cup {Len(s) + 1})

\* (%\w+) at position p: the position after it, or 0.
IdEnd(s, p) ==
    IF p + 1 <= Len(s) /\ s[p] = "%" /\ IsWord(s[p + 1])
    THEN WordEnd(s, p + 1) ELSE 0

\* (?:\((.*)\))? at position h: the text between the parenthesis at h and
\* the last closing parenthesis of the line, or Undefined.
ArgsAt(s, h) ==
    LET closing == {r \in (h + 1)..(DotEnd(s, h + 1) - 1) : s[r] = ")"}
    IN  IF h <= Len(s) /\ s[h] = "(" /\ closing # {}
        THEN SubSeq(s, h + 1, Max(closing) - 1)
        ELSE Undefined

\* \s*=\s* at position e, then a \w character (tail = <<>>) or the literal
\* tail: the position of what follows the equals sign, or 0.
AssignAt(s, e, tail) ==
    LET f == SkipSpaces(s, e)
        g == SkipSpaces(s, f + 1)
    IN  IF f <= Len(s) /\ s[f] = "="
           /\ (IF tail = <<>> THEN g <= Len(s) /\ IsWord(s[g])
                              ELSE LitAt(s, g, tail))
        THEN g ELSE 0

\* :\s*(.+?)\s*=\s*... after the colon at c: the lazy type capture.  The
\* greedy \s* gives spaces back one at a time (q), the lazy .+? grows one
\* character at a time (e).
TypeStarts(s, c, tail) ==
    {q \in (c + 1)..SkipSpaces(s, c + 1) :
        /\ q <= Len(s)
        /\ \E e \in (q + 1)..DotEnd(s, q) : AssignAt(s, e, tail) > 0}

TypeStop(s, q, tail) ==
    Min({e \in (q + 1)..DotEnd(s, q) : AssignAt(s, e, tail) > 0})

\* instructionRegex at start p.
LetAt(s, p) ==
    LET a == p + 3
        b == SkipSpaces(s, a)
        e == IdEnd(s, b)
        c == SkipSpaces(s, e)
    IN  IF /\ LitAt(s, p, <<"l","e","t">>)
           /\ a <= Len(s) /\ IsSpace(s[a])
           /\ e > 0
           /\ c <= Len(s) /\ s[c] = ":"
           /\ TypeStarts(s, c, <<>>) # {}
        THEN LET q == Max(TypeStarts(s, c, <<>>))
                 t == TypeStop(s, q, <<>>)
                 g == AssignAt(s, t, <<>>)
                 h == WordEnd(s, g)
             IN  [matched |-> TRUE,
                  id      |-> SubSeq(s, b, e - 1),
                  type    |-> SubSeq(s, q, t - 1),
                  opcode  |-> SubSeq(s, g, h - 1),
                  args    |-> ArgsAt(s, h)]
        ELSE NoMatch

\* /let\s+(%\w+)\s*:\s*(.+?)\s*=\s*(\w+)(?:\((.*)\))?/
instructionRegex(s) == FirstMatch([p \in 1..Len(s) |-> LetAt(s, p)])

\* blockRegex at start p.
BlockAt(s, p) ==
    LET a == p + 5
        b == SkipSpaces(s, a)
        e == IdEnd(s, b)
    IN  IF /\ LitAt(s, p, <<"b","l","o","c","k">>)
           /\ a <= Len(s) /\ IsSpace(s[a])
           /\ e > 0
           /\ e <= Len(s) /\ s[e] \in {":", "("}
        THEN [matched |-> TRUE, id |-> SubSeq(s, b, e - 1)]
        ELSE NoMatch

\* /block\s+(%\w+)(?::|\()/
blockRegex(s) == FirstMatch([p \in 1..Len(s) |-> BlockAt(s, p)])

\* keyword\s+(%\w+)\s*:\s*(.+) at start p: the shape shared by funcRegex,
\* witnessTableRegex, structRegex and paramRegex.
KeywordAt(s, p, keyword) ==
    LET a == p + Len(keyword)
        b == SkipSpaces(s, a)
        e == IdEnd(s, b)
        c == SkipSpaces(s, e)
        starts == {q \in (c + 1)..SkipSpaces(s, c + 1) :
                      q <= Len(s) /\ IsDot(s[q])}
    IN  IF /\ LitAt(s, p, keyword)
           /\ a <= Len(s) /\ IsSpace(s[a])
           /\ e > 0
           /\ c <= Len(s) /\ s[c] = ":"
           /\ starts # {}
        THEN [matched |-> TRUE,
              id      |-> SubSeq(s, b, e - 1),
              type    |-> SubSeq(s, Max(starts), DotEnd(s, Max(starts)) - 1)]
        ELSE NoMatch

KeywordRegex(s, keyword) ==
    FirstMatch([p \in 1..Len(s) |-> KeywordAt(s, p, keyword)])

\* /func\s+(%\w+)\s*:\s*(.+)/
funcRegex(s) == KeywordRegex(s, <<"f","u","n","c">>)

\* /witness_table\s+(%\w+)\s*:\s*(.+)/
witnessTableRegex(s) ==
    KeywordRegex(s, <<"w","i","t","n","e","s","s","_","t","a","b","l","e">>)

\* /struct\s+(%\w+)\s*:\s*(.+)/
structRegex(s) == KeywordRegex(s, <<"s","t","r","u","c","t">>)

\* /param\s+(%\w+)\s*:\s*(.+)/
paramRegex(s) == KeywordRegex(s, <<"p","a","r","a","m">>)

GlobalParam == <<"g","l","o","b","a","l","_","p","a","r","a","m">>

\* globalParamRegex at start p.
GlobalAt(s, p) ==
    LET e == IdEnd(s, p)
        c == SkipSpaces(s, e)
    IN  IF /\ e > 0
           /\ c <= Len(s) /\ s[c] = ":"
           /\ TypeStarts(s, c, GlobalParam) # {}
        THEN LET q == Max(TypeStarts(s, c, GlobalParam))
             IN  [matched |-> TRUE,
                  id      |-> SubSeq(s, p, e - 1),
                  type    |-> SubSeq(s, q, TypeStop(s, q, GlobalParam) - 1)]
        ELSE NoMatch

\* /(%\w+)\s*:\s*(.+?)\s*=\s*global_param/
globalParamRegex(s) == FirstMatch([p \in 1..Len(s) |-> GlobalAt(s, p)])

\* /^\[(\w+)(?:\((.*)\))?\]$/
attributeRegex(s) ==
    LET h == WordEnd(s, 2)
        n == Len(s)
    IN  IF n >= 3 /\ s[1] = "[" /\ IsWord(s[2])
        THEN IF h = n /\ s[n] = "]"
             THEN [matched |-> TRUE, name |-> SubSeq(s, 2, h - 1),
                   args |-> Undefined]
             ELSE IF /\ h <= n /\ s[h] = "(" /\ n >= h + 2
                     /\ s[n] = "]" /\ s[n - 1] = ")"
                     /\ DotEnd(s, h + 1) > n - 2
                  THEN [matched |-> TRUE, name |-> SubSeq(s, 2, h - 1),
                        args |-> SubSeq(s, h + 1, n - 2)]
                  ELSE NoMatch
        ELSE NoMatch

\* /^\s*(\w+)(?:\((.*)\))?/
voidOpRegex(s) ==
    LET b == SkipSpaces(s, 1)
        h == WordEnd(s, b)
    IN  IF b <= Len(s) /\ IsWord(s[b])
        THEN [matched |-> TRUE, opcode |-> SubSeq(s, b, h - 1),
              args |-> ArgsAt(s, h)]
        ELSE NoMatch

(***************************************************************************)
(* parseSlangIR                                                            *)
(***************************************************************************)
VoidDescription ==
    <<"V","o","i","d"," ","I","n","s","t","r","u","c","t","i","o","n">>

Text_block == <<"b","l","o","c","k">>
Text_func == <<"f","u","n","c">>
Text_witness_table ==
    <<"w","i","t","n","e","s","s","_","t","a","b","l","e">>
Text_struct == <<"s","t","r","u","c","t">>
Text_param == <<"p","a","r","a","m">>

\* Number.prototype.toString of a line index
RECURSIVE Digits(_)
Digits(n) ==
    LET d == <<"0","1","2","3","4","5","6","7","8","9">>[(n % 10) + 1]
    IN  IF n < 10 THEN <<d>> ELSE Append(Digits(n \div 10), d)

\* A slip: the 1-based line number instead of the 0-based index.
SyntheticIdOneBased(lineIndex) ==
    <<"l","i","n","e","_">> \o Digits(lineIndex + 1)

\* `line_${index}`
SyntheticId(lineIndex) == <<"l","i","n","e","_">> \o Digits(lineIndex)

RECURSIVE Flatten(_)
Flatten(seqs) ==
    IF seqs = <<>> THEN <<>> ELSE seqs[1] \o Flatten(Tail(seqs))

\* A slip: the deep scan does not skip the primary reference.
OperandRefsNoSkip(op) ==
    (IF op.refId # Undefined THEN <<op.refId>> ELSE <<>>)
    \o findAllReferences(op.raw)

\* What one operand contributes to the edges: its primary reference, then
\* every other reference found in its raw text.
OperandRefs(op) ==
    (IF op.refId # Undefined THEN <<op.refId>> ELSE <<>>)
    \o SelectSeq(findAllReferences(op.raw), LAMBDA r : r # op.refId)

\* What one attribute contributes to the edges: the primary reference of
\* each operand, then every reference found in its argument text.
AttributeRefs(attr) ==
    Flatten([n \in 1..Len(attr.operands) |->
                IF attr.operands[n].refId # Undefined
                THEN <<attr.operands[n].refId>> ELSE <<>>])
    \o findAllReferences(attr.args)

\* A slip: the two ends of an edge swapped.
EdgesOutOf(refs, nodeId) ==
    [n \in 1..Len(refs) |-> [from |-> nodeId, to |-> refs[n]]]

\* edges.push({ from: ref, to: nodeId }) for each reference
EdgesInto(refs, nodeId) ==
    [n \in 1..Len(refs) |-> [from |-> refs[n], to |-> nodeId]]

\* The edges attachAttributesAndProcessEdges pushes for the pending
\* attributes.
AttributeEdges(pending, nodeId) ==
    EdgesInto(Flatten([n \in 1..Len(pending) |-> AttributeRefs(pending[n])]),
              nodeId)

\* argsRaw ? parseOperands(argsRaw) : []
OperandsOf(args) ==
    IF args = Undefined \/ args = <<>> THEN <<>> ELSE parseOperands(args)

\* typeRefs.map(ref => ({ raw: ref, refId: ref }))
ExtraOperands(refs) ==
    [n \in 1..Len(refs) |-> [raw |-> refs[n], refId |-> refs[n]]]

\* if (type.endsWith(';')) type = type.slice(0, -1)
StripSemicolon(type) ==
    IF EndsWith(type, <<";">>) THEN SubSeq(type, 1, Len(type) - 1) ELSE type

NoFacts ==
    [kind |-> "none", id |-> Undefined, type |-> "Unknown", dataType |-> Undefined,
     opcode |-> Undefined, operands |-> <<>>, refs |-> <<>>,
     attribute |-> Undefined]

\* What the branch taken reads off the line, given the trimmed line and the
\* match of each regular expression on it, in the priority order of the
\* source.
Facts(line, cleanLine, attr, let, block, func, global, witness, struct, param, void) ==
        IF \/ cleanLine = <<>>
           \/ StartsWith(cleanLine, <<"/","/">>)
           \/ StartsWith(cleanLine, Marker)
        THEN [NoFacts EXCEPT !.kind = "skip"]
        ELSE IF attr.matched
        THEN [NoFacts EXCEPT
                !.kind = "attribute",
                !.attribute =
                    [name     |-> attr.name,
                     args     |-> IF attr.args = Undefined THEN <<>>
                                  ELSE attr.args,
                     raw      |-> cleanLine,
                     operands |-> OperandsOf(attr.args)]]
        ELSE IF let.matched
        THEN [NoFacts EXCEPT
                !.kind = "let", !.id = let.id, !.type = "Instruction",
                !.dataType = let.type, !.opcode = let.opcode,
                !.operands = OperandsOf(let.args),
                !.refs = Flatten([n \in 1..Len(OperandsOf(let.args)) |->
                                     OperandRefs(OperandsOf(let.args)[n])])
                         \o findAllReferences(let.type)]
        ELSE IF block.matched
        THEN [NoFacts EXCEPT
                !.kind = "block", !.id = block.id, !.type = "Block",
                !.opcode = Text_block]
        ELSE IF func.matched
        THEN [NoFacts EXCEPT
                !.kind = "func", !.id = func.id, !.type = "Function",
                !.dataType = func.type, !.opcode = Text_func]
        ELSE IF global.matched
        THEN [NoFacts EXCEPT
                !.kind = "global", !.id = global.id, !.type = "Variable",
                !.dataType = global.type, !.opcode = GlobalParam,
                !.operands = ExtraOperands(findAllReferences(global.type)),
                !.refs = findAllReferences(global.type)]
        ELSE IF witness.matched
        THEN [NoFacts EXCEPT
                !.kind = "witness", !.id = witness.id, !.type = "Variable",
                !.dataType = StripSemicolon(witness.type),
                !.opcode = Text_witness_table,
                !.operands = ExtraOperands(
                    findAllReferences(StripSemicolon(witness.type))),
                !.refs = findAllReferences(StripSemicolon(witness.type))]
        ELSE IF struct.matched
        THEN [NoFacts EXCEPT
                !.kind = "struct", !.id = struct.id, !.type = "Struct",
                !.dataType = struct.type, !.opcode = Text_struct]
        ELSE IF param.matched
        THEN [NoFacts EXCEPT
                !.kind = "param", !.id = param.id, !.type = "Parameter",
                !.dataType = param.type, !.opcode = Text_param]
        ELSE IF /\ void.matched
                /\ ~Includes(line, <<"=">>)
                /\ ~StartsWith(cleanLine, <<"[">>)
                /\ ~EndsWith(cleanLine, <<":">>)
        THEN [NoFacts EXCEPT
                !.kind = "void", !.type = "Instruction",
                !.opcode = void.opcode,
                !.operands = OperandsOf(void.args),
                !.refs = Flatten([n \in 1..Len(OperandsOf(void.args)) |->
                                     OperandRefs(OperandsOf(void.args)[n])])]
        ELSE [NoFacts EXCEPT !.kind = "none"]

\* The matches of the trimmed line.
Matches(line, cleanLine) ==
    Facts(line, cleanLine,
          attributeRegex(cleanLine), instructionRegex(cleanLine),
          blockRegex(cleanLine), funcRegex(cleanLine),
          globalParamRegex(cleanLine), witnessTableRegex(cleanLine),
          structRegex(cleanLine), paramRegex(cleanLine),
          voidOpRegex(cleanLine))

\* The classification of one line: const cleanLine = line.trim().
Classify(line) == Matches(line, Trim(line))


(***************************************************************************)
(* Inputs of parseSlangIR: pass texts made of the lines below.             *)
(***************************************************************************)
AttrNameHint ==
    <<"[","n","a","m","e","H","i","n","t","(","\"","x","\"",")","]">>
    \* [nameHint("x")]
AttrLayout ==
    <<"[","l","a","y","o","u","t","(","%","5",")","]">>
    \* [layout(%5)]
LetTypeLayout ==
    <<"l","e","t"," ","%","9"," ",":"," ","V","o","i","d"," ","="," ","t","y","p","e","L","a","y","o","u","t">>
    \* let %9 : Void = typeLayout
LetNested ==
    <<"l","e","t"," ","%","1"," ",":"," ","V","e","c","(","%","9",")"," ","="," ","f","(","g","(","%","2",")",","," ","%","9",")">>
    \* let %1 : Vec(%9) = f(g(%2), %9)
StoreLine ==
    <<"s","t","o","r","e","(","%","2","6",","," ","%","2","5",")">>
    \* store(%26, %25)
FooLine ==
    <<"f","o","o","(","m","a","k","e","V","e","c","t","o","r","(","0",","," ","0",")",","," ","%","3",")">>
    \* foo(makeVector(0, 0), %3)
BlockLine ==
    <<"b","l","o","c","k"," ","%","B","(">>
    \* block %B(
ParamLine ==
    <<"p","a","r","a","m"," ","%","p"," ",":"," ","I","n","t">>
    \* param %p : Int
FuncLine ==
    <<"f","u","n","c"," ","%","f"," ",":"," ","F","u","n","c","(","V","o","i","d",")">>
    \* func %f : Func(Void)
GlobalLine ==
    <<"%","g"," ",":"," ","B","u","f","(","%","9",")"," ","="," ","g","l","o","b","a","l","_","p","a","r","a","m">>
    \* %g : Buf(%9) = global_param
GlobalPairLine ==
    <<"%","h"," ",":"," ","P","a","i","r","(","%","9",","," ","%","5",","," ","%","9",")"," ","="," ","g","l","o","b","a","l","_","p","a","r","a","m">>
    \* %h : Pair(%9, %5, %9) = global_param
LetGlobalLine ==
    <<"l","e","t"," ","%","o"," ",":"," ","B","u","f","(","%","9",")"," ","="," ","g","l","o","b","a","l","_","p","a","r","a","m">>
    \* let %o : Buf(%9) = global_param
WitnessLine ==
    <<"w","i","t","n","e","s","s","_","t","a","b","l","e"," ","%","w"," ",":"," ","w","t","(","%","9",")",";">>
    \* witness_table %w : wt(%9);
StructLine ==
    <<"s","t","r","u","c","t"," ","%","S"," ",":"," ","T","y","p","e">>
    \* struct %S : Type
ProseLine ==
    <<"t","h","i","s"," ","i","s"," ","g","i","b","b","e","r","i","s","h">>
    \* this is gibberish
BraceLine ==
    <<"}">>
    \* }
BlankLine ==
    <<>>
    \* (an empty line)
CommentLine ==
    <<"/","/"," ","n","o","t","e">>
    \* // note

IRLines ==
    {AttrNameHint, AttrLayout, LetTypeLayout, LetNested, StoreLine, FooLine,
     BlockLine, ParamLine, FuncLine, GlobalLine, GlobalPairLine, WitnessLine,
     StructLine, ProseLine, BraceLine, BlankLine, CommentLine, Marker,
     LetGlobalLine}

IRInputs == {JoinLines(ls) : ls \in SeqsUpTo(IRLines, MaxIRLines)}

\* The other lines of the texts the editor holds.
PoisonLine ==
    <<"P","o","i","s","o","n">>
    \* Poison
MarkerNameLine ==
    <<"#","#","#","A">>
    \* ###A

EditorLines == {PoisonLine, MarkerNameLine, <<"#","#","#">>}

\* The classification of the lines above, computed once.
ClassifiedLines == [l \in IRLines \cup EditorLines |-> Classify(l)]

FactsOf(line) == ClassifiedLines[line]

(***************************************************************************)
(* The scan of parseSlangIR: one step per line.  The scan state is the     *)
(* record [nodes, edges, functions, pendingAttributes, currentBlockId].    *)
(***************************************************************************)
EntityKinds ==
    {"let", "block", "func", "global", "witness", "struct", "param", "void"}

\* Map.prototype.set: a known key keeps its place, a new one goes last.
MapSet(map, node) ==
    IF \E k \in 1..Len(map) : map[k].id = node.id
    THEN [k \in 1..Len(map) |->
             IF map[k].id = node.id THEN node ELSE map[k]]
    ELSE Append(map, node)

MapHas(map, id) == \E k \in 1..Len(map) : map[k].id = id

MapGet(map, id) == map[CHOOSE k \in 1..Len(map) : map[k].id = id]

\* A slip: the struct branch forgets the pending attributes.
AttachedExceptStruct(kind, pending) ==
    IF kind = "struct" THEN <<>> ELSE pending

\* The attributes a new node of this kind receives: every branch calls
\* attachAttributesAndProcessEdges.
AttachedAttributes(kind, pending) == pending

\* parentBlockId: currentBlockId || undefined, in the branches that set it.
ParentBlock(kind, blockId) ==
    IF kind \in {"let", "global", "witness", "param", "void"}
       /\ blockId # Null
    THEN blockId ELSE Undefined

\* A slip: a function header leaves the open block as it is.
OpenBlockNoReset(kind, id, blockId) ==
    IF kind = "block" THEN id ELSE blockId

\* currentBlockId after an entity line.
OpenBlock(kind, id, blockId) ==
    IF kind = "block" THEN id
    ELSE IF kind = "func" THEN Null
    ELSE blockId

\* What a line does to the scan state, given the facts read off it.
ApplyFacts(st, f, line, lineIndex, id) ==
    IF f.kind \in {"skip", "none"} THEN st
    ELSE IF f.kind = "attribute"
    THEN [st EXCEPT !.pendingAttributes = Append(@, f.attribute)]
    ELSE [nodes     |-> MapSet(st.nodes,
              [id            |-> id,
               originalLine  |-> line,
               type          |-> f.type,
               dataType      |-> f.dataType,
               opcode        |-> f.opcode,
               operands      |-> f.operands,
               lineIndex     |-> lineIndex,
               description   |-> IF f.kind = "void" THEN VoidDescription
                                 ELSE Undefined,
               attributes    |-> AttachedAttributes(f.kind,
                                                    st.pendingAttributes),
               parentBlockId |-> ParentBlock(f.kind, st.currentBlockId)]),
          edges     |-> st.edges
                        \o AttributeEdges(
                               AttachedAttributes(f.kind,
                                                  st.pendingAttributes),
                               id)
                        \o EdgesInto(f.refs, id),
          functions |-> IF f.kind = "func"
                        THEN Append(st.functions, id) ELSE st.functions,
          pendingAttributes |-> <<>>,
          currentBlockId |-> OpenBlock(f.kind, id, st.currentBlockId)]

\* The id of the node a line creates: the one on the line, or a synthetic
\* one for a void operation.
NodeId(f, lineIndex) ==
    IF f.kind = "void" THEN SyntheticId(lineIndex) ELSE f.id

ApplyLine(st, f, line, lineIndex) ==
    ApplyFacts(st, f, line, lineIndex, NodeId(f, lineIndex))

ProcessLine(st, line, lineIndex) ==
    ApplyLine(st, FactsOf(line), line, lineIndex)

ScanState ==
    [nodes |-> nodes, edges |-> edges, functions |-> functions,
     pendingAttributes |-> pendingAttributes,
     currentBlockId |-> currentBlockId]

\* A slip: the blank lines are filtered out before the scan.
InitIRWithoutBlankLines ==
    /\ input \in IRInputs
    /\ pc = "scan"
    /\ bodyA = <<>>
    /\ bodyB = <<>>
    /\ passes = <<>>
    /\ operands = <<>>
    /\ lines = SelectSeq(SplitLines(input), LAMBDA l : ~IsBlank(l))
    /\ index = 0
    /\ nodes = <<>>
    /\ edges = <<>>
    /\ functions = <<>>
    /\ pendingAttributes = <<>>
    /\ currentBlockId = Null
    /\ results = <<>>
    /\ IdleApp
    /\ IdleView

InitIR ==
    /\ input \in IRInputs
    /\ pc = "scan"
    /\ bodyA = <<>>
    /\ bodyB = <<>>
    /\ passes = <<>>
    /\ operands = <<>>
    /\ lines = SplitLines(input)
    /\ index = 0
    /\ nodes = <<>>
    /\ edges = <<>>
    /\ functions = <<>>
    /\ pendingAttributes = <<>>
    /\ currentBlockId = Null
    /\ results = <<>>
    /\ IdleApp
    /\ IdleView

\* The callback of lines.forEach on the next line.
ScanLine ==
    /\ pc = "scan"
    /\ index < Len(lines)
    /\ \E st \in {ProcessLine(ScanState, lines[index + 1], index)} :
           /\ nodes' = st.nodes
           /\ edges' = st.edges
           /\ functions' = st.functions
           /\ pendingAttributes' = st.pendingAttributes
           /\ currentBlockId' = st.currentBlockId
    /\ index' = index + 1
    /\ UNCHANGED <<input, pc, bodyA, bodyB, passes, lines, operands, results>>
    /\ UNCHANGED appVars
    /\ UNCHANGED viewVars

\* A slip: the attributes still pending at the end of the text are given to
\* the last node.
ReturnGraphWithLeftovers ==
    /\ pc = "scan"
    /\ index = Len(lines)
    /\ pc' = "done"
    /\ nodes' = IF nodes = <<>> THEN nodes
                ELSE [nodes EXCEPT ![Len(nodes)].attributes =
                                      @ \o pendingAttributes]
    /\ edges' = IF nodes = <<>> THEN edges
                ELSE edges \o AttributeEdges(pendingAttributes,
                                             nodes[Len(nodes)].id)
    /\ UNCHANGED <<input, bodyA, bodyB, passes, operands, results, lines,
                   index, functions, pendingAttributes, currentBlockId>>
    /\ UNCHANGED appVars
    /\ UNCHANGED viewVars

\* The return of { nodes, edges, functions, rawLines } after the last line.
ReturnGraph ==
    /\ pc = "scan"
    /\ index = Len(lines)
    /\ pc' = "done"
    /\ UNCHANGED <<input, bodyA, bodyB, passes, operands, results>>
    /\ UNCHANGED irVars
    /\ UNCHANGED appVars
    /\ UNCHANGED viewVars

NextIR == ScanLine \/ ReturnGraph

SpecIR == InitIR /\ [][NextIR]_vars

\* new Map(), [], [], [] and null
FreshLocals ==
    [nodes |-> <<>>, edges |-> <<>>, functions |-> <<>>,
     pendingAttributes |-> <<>>, currentBlockId |-> Null]

(***************************************************************************)
(* A series of calls of parseSlangIR, one after the other, each on a text  *)
(* of its own.                                                             *)
(***************************************************************************)
CallLines == {AttrLayout, BlockLine, LetTypeLayout}

CallInputs == {JoinLines(ls) : ls \in SeqsUpTo(CallLines, MaxCallLines)}

\* A slip: the attribute list and the open block declared outside the
\* function, so that a call starts with what the call before left.
LocalsKeptAcrossCalls(st) ==
    [nodes |-> <<>>, edges |-> <<>>, functions |-> <<>>,
     pendingAttributes |-> st.pendingAttributes,
     currentBlockId |-> st.currentBlockId]

\* The locals of parseSlangIR when a call begins, st being what the call
\* before left.
LocalsAtEntry(st) == FreshLocals

InitCalls ==
    /\ input = <<>>
    /\ pc = "start"
    /\ bodyA = <<>>
    /\ bodyB = <<>>
    /\ passes = <<>>
    /\ operands = <<>>
    /\ IdleIR
    /\ IdleApp
    /\ IdleView

\* parseSlangIR is called on a text: input.split('\n') and fresh locals.
EnterParse ==
    /\ pc \in {"start", "done"}
    /\ Len(results) < MaxCalls
    /\ \E text \in CallInputs :
           /\ input' = text
           /\ lines' = SplitLines(text)
    /\ index' = 0
    /\ \E st \in {LocalsAtEntry(ScanState)} :
           /\ nodes' = st.nodes
           /\ edges' = st.edges
           /\ functions' = st.functions
           /\ pendingAttributes' = st.pendingAttributes
           /\ currentBlockId' = st.currentBlockId
    /\ pc' = "scan"
    /\ UNCHANGED <<bodyA, bodyB, passes, operands, results>>
    /\ UNCHANGED appVars
    /\ UNCHANGED viewVars

\* The call returns { nodes, edges, functions, rawLines: lines }.
ReturnCall ==
    /\ pc = "scan"
    /\ index = Len(lines)
    /\ pc' = "done"
    /\ results' = Append(results,
                         [text  |-> input,
                          graph |-> [nodes |-> nodes, edges |-> edges,
                                     functions |-> functions,
                                     rawLines |-> lines]])
    /\ UNCHANGED <<input, bodyA, bodyB, passes, operands>>
    /\ UNCHANGED irVars
    /\ UNCHANGED appVars
    /\ UNCHANGED viewVars

NextCalls == EnterParse \/ ScanLine \/ ReturnCall

SpecCalls == InitCalls /\ [][NextCalls]_vars

\* C11: two calls of parseSlangIR on the same text return the same graph
\* (nodes in the same order with the same attributes, the same edge
\* sequence, the same function list), whatever was parsed in between.
C11_Determinism ==
    \A i, j \in 1..Len(results) :
        results[i].text = results[j].text
            => results[i].graph = results[j].graph

\* The same text has been parsed before and after another text, and the
\* graph has a node.
C11_Witness ==
    /\ Len(results) = 3
    /\ results[1].text = results[3].text
    /\ results[2].text # results[1].text
    /\ results[3].graph.nodes # <<>>

(***************************************************************************)
(* parseSlangIR as a function of the text: the scan of every line from     *)
(* fresh locals, and the object returned.                                  *)
(***************************************************************************)
RECURSIVE ScanFrom(_, _, _)
ScanFrom(st, ls, i) ==
    IF i = Len(ls) THEN st
    ELSE ScanFrom(ProcessLine(st, ls[i + 1], i), ls, i + 1)

\* return { nodes, edges, functions, rawLines: lines }
GraphOf(st, rawLines) ==
    [nodes     |-> st.nodes,
     edges     |-> st.edges,
     functions |-> st.functions,
     rawLines  |-> rawLines]

parseSlangIR(text) ==
    GraphOf(ScanFrom(FreshLocals, SplitLines(text), 0), SplitLines(text))

(***************************************************************************)
(* The explanation service.  A call ends in one of four ways, which the    *)
(* environment decides: the API key is missing, the request is rejected,   *)
(* the response carries a text, or the response carries no text.           *)
(***************************************************************************)
Outcomes == {"no_key", "rejected", "text", "empty"}

\* A text of a response.
ResponseText ==
    <<"T","h","e"," ","s","h","a","d","e","r"," ","s","t","o","r","e","s",
      " ","a"," ","v","a","l","u","e",".">>

ExplainKeyMissing ==
    <<"A","P","I"," ","K","e","y"," ","i","s"," ","m","i","s","s","i","n",
      "g","."," ","P","l","e","a","s","e"," ","c","o","n","f","i","g","u",
      "r","e"," ","p","r","o","c","e","s","s",".","e","n","v",".","A","P",
      "I","_","K","E","Y"," ","t","o"," ","u","s","e"," ","A","I"," ","f",
      "e","a","t","u","r","e","s",".">>
ExplainFailed ==
    <<"F","a","i","l","e","d"," ","t","o"," ","f","e","t","c","h"," ","e",
      "x","p","l","a","n","a","t","i","o","n","."," ","P","l","e","a","s",
      "e"," ","c","h","e","c","k"," ","y","o","u","r"," ","A","P","I"," ",
      "K","e","y"," ","a","n","d"," ","c","o","n","n","e","c","t","i","o",
      "n",".">>
ExplainEmpty ==
    <<"N","o"," ","e","x","p","l","a","n","a","t","i","o","n"," ","g","e",
      "n","e","r","a","t","e","d",".">>
AnalyzeKeyMissing ==
    <<"A","P","I"," ","K","e","y"," ","i","s"," ","m","i","s","s","i","n",
      "g",".">>
AnalyzeFailed ==
    <<"F","a","i","l","e","d"," ","t","o"," ","a","n","a","l","y","z","e",
      " ","f","l","o","w",".">>
AnalyzeEmpty ==
    <<"N","o"," ","a","n","a","l","y","s","i","s"," ","g","e","n","e","r",
      "a","t","e","d",".">>

\* What an async function hands to its caller: a value, or an exception.
Returned(value) == [threw |-> FALSE, value |-> value]
Thrown == [threw |-> TRUE, value |-> Undefined]

\* A slip: the request awaited outside any try block.
GenerateUncaught(outcome, ifEmpty, ifRejected) ==
    IF outcome = "rejected" THEN Thrown
    ELSE IF outcome = "text" THEN Returned(ResponseText)
    ELSE Returned(ifEmpty)

\* try { response = await generateContent(...); return response.text || ifEmpty }
\* catch (error) { return ifRejected }
GenerateContent(outcome, ifEmpty, ifRejected) ==
    IF outcome = "rejected" THEN Returned(ifRejected)
    ELSE IF outcome = "text" THEN Returned(ResponseText)
    ELSE Returned(ifEmpty)

explainIRNode(node, contextLines, outcome) ==
    IF outcome = "no_key" THEN Returned(ExplainKeyMissing)
    ELSE GenerateContent(outcome, ExplainEmpty, ExplainFailed)

analyzeFlow(fullIr, outcome) ==
    IF outcome = "no_key" THEN Returned(AnalyzeKeyMissing)
    ELSE GenerateContent(outcome, AnalyzeEmpty, AnalyzeFailed)

(***************************************************************************)
(* The App component: the pass list, the selected pass, the debounced      *)
(* re-parse of the selected pass and the analysis of the selected pass.    *)
(* A step is one handler together with the render and the effects it       *)
(* causes.                                                                 *)
(***************************************************************************)

\* SAMPLE_IR, each of its two passes cut down to lines of its own.
SampleIR ==
    <<"#","#","#","\n","#","#","#"," ","A","F","T","E","R","-","V","E","C",
      "T","O","R","-","L","E","G","A","L","I","Z","A","T","I","O","N",":",
      "\n","P","o","i","s","o","n","\n","#","#","#","\n","#","#","#"," ",
      "P","O","S","T"," ","L","I","N","K"," ","A","N","D"," ","O","P","T",
      "I","M","I","Z","E",":","\n","P","o","i","s","o","n","\n","}","\n",
      "#","#","#">>

\* Texts the editor hands to handleCodeChange.
EditMarkerOnly ==
    <<"#","#","#","A">>
    \* ###A
DumpAdjacent ==
    <<"#","#","#","\n","#","#","#","A","\n","s","t","o","r","e","(","%","2",
      "6",","," ","%","2","5",")">>
    \* ###, ###A, store(%26, %25)
DumpSpaced ==
    <<"#","#","#","\n","\n","#","#","#","A","\n","s","t","o","r","e","(",
      "%","2","6",","," ","%","2","5",")">>
    \* ###, an empty line, ###A, store(%26, %25)

EditorTexts == {StoreLine, EditMarkerOnly, DumpAdjacent, DumpSpaced}

\* /###\s*\n\s*###/.test(s): a marker, white space with a line feed in it,
\* and a marker.
MarkerPairAt(s, p) ==
    /\ LitAt(s, p, Marker)
    /\ LitAt(s, SkipSpaces(s, p + 3), Marker)
    /\ \E k \in (p + 3)..(SkipSpaces(s, p + 3) - 1) : s[k] = LF

isMultiPassDump(newCode) ==
    /\ Includes(newCode, Marker)
    /\ \E p \in 1..Len(newCode) : MarkerPairAt(newCode, p)

\* The contents a pass can come to hold, and their parses, computed once.
PassContents ==
    {t \in EditorTexts : ~isMultiPassDump(t)}
    \cup UNION {{parsePasses(t)[k].content : k \in 1..Len(parsePasses(t))} :
                   t \in {SampleIR} \cup {d \in EditorTexts : isMultiPassDump(d)}}

ParsedContents == [content \in PassContents |-> parseSlangIR(content)]

\* const data = parseSlangIR(currentPass.content)
ParseOf(content) == ParsedContents[content]

\* passes[selectedPassIndex]
currentPass == passes[selectedPassIndex + 1]

\* A slip: the effect returns no cleanup, and the timer stays pending.
TimerLeftPending(ts) ==
    [k \in 1..Len(ts) |-> [ts[k] EXCEPT !.owned = FALSE]]

\* clearTimeout(timer) of the effect's cleanup: the timer the last run of
\* the effect set is no longer pending.
ClearTimeout(ts) == SelectSeq(ts, LAMBDA t : ~t.owned)

\* A slip: the effect has no dependencies and runs on mount only.
NoEffectOnChange(ts, pass) == ts

\* The debounce effect when currentPass has changed: the cleanup of the
\* last run, then setTimeout of a parse of the pass the run sees.
RunEffect(ts, pass) ==
    Append(ClearTimeout(ts), [content |-> pass.content, owned |-> TRUE])

\* The component once mounted: the passes of SAMPLE_IR, the first one
\* selected and its re-parse pending.
InitApp ==
    /\ input = SampleIR
    /\ pc = "mounted"
    /\ bodyA = <<>>
    /\ bodyB = <<>>
    /\ operands = <<>>
    /\ IdleIR
    /\ passes = parsePasses(SampleIR)
    /\ selectedPassIndex = 0
    /\ parsedData = NullRecord
    /\ timers = RunEffect(<<>>, parsePasses(SampleIR)[1])
    /\ globalAnalysis = Null
    /\ isAnalyzing = FALSE
    /\ inFlight = <<>>
    /\ reply = NullRecord
    /\ IdleView

\* The pass list handleCodeChange sets.
PassesAfterEdit(ps, idx, newCode) ==
    IF isMultiPassDump(newCode) THEN parsePasses(newCode)
    ELSE [ps EXCEPT ![idx + 1].content = newCode]

\* A slip: the paste of a dump leaves the selected index where it was; the
\* effect sets no timer when there is no current pass.
HandleCodeChangeKeepingIndex ==
    /\ pc # "start"
    /\ \E newCode \in EditorTexts :
           /\ input' = newCode
           /\ passes' = PassesAfterEdit(passes, selectedPassIndex, newCode)
           /\ globalAnalysis' =
                  IF isMultiPassDump(newCode) THEN Null ELSE globalAnalysis
    /\ selectedPassIndex' = selectedPassIndex
    /\ timers' = IF selectedPassIndex < Len(passes')
                 THEN RunEffect(timers, passes'[selectedPassIndex + 1])
                 ELSE ClearTimeout(timers)
    /\ pc' = "handleCodeChange"
    /\ UNCHANGED <<bodyA, bodyB, operands, results, parsedData, isAnalyzing,
                   inFlight, reply>>
    /\ UNCHANGED irVars
    /\ UNCHANGED viewVars

\* handleCodeChange(newCode), and the debounce effect on the new pass.
HandleCodeChange ==
    /\ pc # "start"
    /\ \E newCode \in EditorTexts :
           /\ input' = newCode
           /\ passes' = PassesAfterEdit(passes, selectedPassIndex, newCode)
           /\ selectedPassIndex' =
                  IF isMultiPassDump(newCode) THEN 0 ELSE selectedPassIndex
           /\ globalAnalysis' =
                  IF isMultiPassDump(newCode) THEN Null ELSE globalAnalysis
    /\ timers' = RunEffect(timers, passes'[selectedPassIndex' + 1])
    /\ pc' = "handleCodeChange"
    /\ UNCHANGED <<bodyA, bodyB, operands, results, parsedData, isAnalyzing,
                   inFlight, reply>>
    /\ UNCHANGED irVars
    /\ UNCHANGED viewVars

\* A click on another pass of the list: setSelectedPassIndex(idx), and the
\* debounce effect on the pass now selected.
SelectPass ==
    /\ pc # "start"
    /\ \E idx \in 0..(Len(passes) - 1) :
           /\ idx # selectedPassIndex
           /\ selectedPassIndex' = idx
           /\ timers' = RunEffect(timers, passes[idx + 1])
    /\ pc' = "selectPass"
    /\ UNCHANGED <<input, bodyA, bodyB, passes, operands, results,
                   parsedData, globalAnalysis, isAnalyzing, inFlight, reply>>
    /\ UNCHANGED irVars
    /\ UNCHANGED viewVars

\* The 800 ms of the oldest pending timer are over: setParsedData of the
\* parse of the content its effect saw.
TimerFires ==
    /\ timers # <<>>
    /\ parsedData' = ParseOf(Head(timers).content)
    /\ timers' = Tail(timers)
    /\ pc' = "timer"
    /\ UNCHANGED <<input, bodyA, bodyB, passes, operands, results,
                   selectedPassIndex, globalAnalysis, isAnalyzing, inFlight,
                   reply>>
    /\ UNCHANGED irVars
    /\ UNCHANGED viewVars

\* handleAnalyzeGlobal up to its await; the button is disabled while
\* isAnalyzing.
AnalyzeGlobal ==
    /\ pc # "start"
    /\ ~isAnalyzing
    /\ isAnalyzing' = TRUE
    /\ inFlight' = Append(inFlight, currentPass.content)
    /\ pc' = "handleAnalyzeGlobal"
    /\ UNCHANGED <<input, bodyA, bodyB, passes, operands, results,
                   selectedPassIndex, parsedData, timers, globalAnalysis,
                   reply>>
    /\ UNCHANGED irVars
    /\ UNCHANGED viewVars

\* analyzeFlow settles and handleAnalyzeGlobal runs to its end, or is left
\* by the exception.
AnalysisSettles ==
    /\ inFlight # <<>>
    /\ \E outcome \in Outcomes :
         \E r \in {analyzeFlow(Head(inFlight), outcome)} :
           /\ reply' = [service |-> "analyzeFlow", outcome |-> outcome,
                        threw |-> r.threw, value |-> r.value]
           /\ globalAnalysis' = IF r.threw THEN globalAnalysis ELSE r.value
           /\ isAnalyzing' = IF r.threw THEN isAnalyzing ELSE FALSE
    /\ inFlight' = Tail(inFlight)
    /\ pc' = "analysisSettles"
    /\ UNCHANGED <<input, bodyA, bodyB, passes, operands, results,
                   selectedPassIndex, parsedData, timers>>
    /\ UNCHANGED irVars
    /\ UNCHANGED viewVars

\* A call of explainIRNode on a node of the graph shown, which settles.
ExplainNode ==
    /\ parsedData # NullRecord
    /\ \E k \in 1..Len(parsedData.nodes), outcome \in Outcomes :
         \E r \in {explainIRNode(parsedData.nodes[k], parsedData.rawLines,
                                 outcome)} :
           reply' = [service |-> "explainIRNode", outcome |-> outcome,
                     threw |-> r.threw, value |-> r.value]
    /\ pc' = "explainIRNode"
    /\ UNCHANGED <<input, bodyA, bodyB, passes, operands, results,
                   selectedPassIndex, parsedData, timers, globalAnalysis,
                   isAnalyzing, inFlight>>
    /\ UNCHANGED irVars
    /\ UNCHANGED viewVars

NextApp ==
    \/ HandleCodeChange
    \/ SelectPass
    \/ TimerFires
    \/ AnalyzeGlobal
    \/ AnalysisSettles
    \/ ExplainNode

SpecApp == InitApp /\ [][NextApp]_vars

\* The editing, the pass selection and the debounced re-parse alone, the
\* explanation service left out.  setTimeout calls its callback: a pending
\* timer fires in the end.
NextDebounce == HandleCodeChange \/ SelectPass \/ TimerFires

SpecDebounce == InitApp /\ [][NextDebounce]_vars /\ WF_vars(TimerFires)

(***************************************************************************)
(* Claims about the App component and the explanation service.             *)
(***************************************************************************)

\* The text has a line that ends in ### and whose next line begins with
\* ###, white space at the ends of a line aside.
HasDelimiterPair(text) ==
    \E i \in 1..(Len(SplitLines(text)) - 1) :
        /\ EndsWith(Trim(SplitLines(text)[i]), Marker)
        /\ StartsWith(Trim(SplitLines(text)[i + 1]), Marker)

\* C12: a step of handleCodeChange with a text without a delimiter pair
\* changes only the content of the selected pass (same list length, same
\* other passes, same names, same selected index); with a text with a
\* delimiter pair the list becomes parsePasses(text) and the selected
\* index 0.
C12_PassOwnership ==
    [][pc' = "handleCodeChange" =>
         \A text \in {input'} :
           IF HasDelimiterPair(text)
           THEN /\ passes' = parsePasses(text)
                /\ selectedPassIndex' = 0
           ELSE /\ Len(passes') = Len(passes)
                /\ selectedPassIndex' = selectedPassIndex
                /\ \A k \in 1..Len(passes) :
                       /\ passes'[k].name = passes[k].name
                       /\ k # selectedPassIndex + 1 => passes'[k] = passes[k]
                /\ passes'[selectedPassIndex + 1].content = text]_vars

\* C13: if from some point on neither the selected pass index nor the
\* content of the selected pass changes, then from some point on the graph
\* shown is the parse of the content of the selected pass.
C13_DebounceConverges ==
    <>[][/\ selectedPassIndex' = selectedPassIndex
         /\ currentPass'.content = currentPass.content]_vars
        => <>[](parsedData = parseSlangIR(currentPass.content))

\* After an edit the timer has fired, none is pending, and the graph shown
\* is the parse of the edited pass.
C13_Witness ==
    /\ pc = "timer"
    /\ timers = <<>>
    /\ currentPass.content = StoreLine
    /\ parsedData = parseSlangIR(StoreLine)

\* C15: at most one re-parse timer is pending, a pending timer is for the
\* content of the pass now selected (a change of the selected pass or of
\* its content has cancelled any other), and when a timer fires the graph
\* set is the parse of the content of the pass selected at that moment.
C15_SupersededTimersNeverAct ==
    /\ [](/\ Len(timers) <= 1
          /\ \A k \in 1..Len(timers) :
                 timers[k].content = currentPass.content)
    /\ [][pc' = "timer" =>
             \A content \in {currentPass'.content} :
                 parsedData' = parseSlangIR(content)]_vars

\* An edit has come before the timer set on mount fired: one timer is
\* pending, for the edited content, and no graph has been set yet.
C15_Witness ==
    /\ pc = "handleCodeChange"
    /\ parsedData = NullRecord
    /\ Len(timers) = 1
    /\ currentPass.content = EditMarkerOnly
    /\ timers[1].content = EditMarkerOnly

\* The placeholder a service returns when the API key is missing or the
\* request is rejected.
Placeholder(service, outcome) ==
    IF service = "analyzeFlow"
    THEN IF outcome = "no_key" THEN AnalyzeKeyMissing ELSE AnalyzeFailed
    ELSE IF outcome = "no_key" THEN ExplainKeyMissing ELSE ExplainFailed

\* C14: a call of analyzeFlow or explainIRNode never throws, and returns
\* the placeholder message when the API key is missing or the request is
\* rejected; a step of handleAnalyzeGlobal leaves passes,
\* selectedPassIndex and parsedData as they are, and its last step leaves
\* isAnalyzing false.
C14_FailureIsolation ==
    /\ [](reply # NullRecord =>
            /\ ~reply.threw
            /\ reply.outcome \in {"no_key", "rejected"} =>
                   reply.value = Placeholder(reply.service, reply.outcome))
    /\ [][(isAnalyzing' # isAnalyzing \/ inFlight' # inFlight) =>
             UNCHANGED <<passes, selectedPassIndex, parsedData>>]_vars
    /\ [][Len(inFlight') < Len(inFlight) => ~isAnalyzing']_vars

\* The request of an analysis has been rejected: the placeholder is shown
\* and the analysis is over.
C14_Witness ==
    /\ pc = "analysisSettles"
    /\ reply # NullRecord
    /\ reply.service = "analyzeFlow"
    /\ reply.outcome = "rejected"
    /\ globalAnalysis = AnalyzeFailed
    /\ ~isAnalyzing
    /\ inFlight = <<>>

(***************************************************************************)
(* Claims about parseSlangIR.                                              *)
(***************************************************************************)
Id_9  == <<"%","9">>
Id_5  == <<"%","5">>
Id_25 == <<"%","2","5">>
Id_26 == <<"%","2","6">>

HasEdge(es, from, to) ==
    \E k \in 1..Len(es) : es[k].from = from /\ es[k].to = to

\* C1: every edge of the graph points to a node of the node map; the
\* source of an edge need not be one.
C1_EdgeTargetsExist ==
    \A k \in 1..Len(edges) : MapHas(nodes, edges[k].to)

\* A graph has been returned with an edge whose source is no node.
C1_Witness ==
    /\ pc = "done"
    /\ \E k \in 1..Len(edges) :
           MapHas(nodes, edges[k].to) /\ ~MapHas(nodes, edges[k].from)

\* The 0-based index of the last line that created a node, or -1.
LastEntityLine ==
    IF nodes = <<>> THEN -1
    ELSE Max({nodes[k].lineIndex : k \in 1..Len(nodes)})

\* The trimmed attribute lines among the 0-based lines from..to.
AttributeLinesBetween(from, to) ==
    SelectSeq([n \in 1..(to - from + 1) |-> Trim(lines[from + n])],
              LAMBDA l : attributeRegex(l).matched)

\* C6: a line that creates a node gives it exactly the attribute lines
\* seen since the previous node-creating line, in source order, empties
\* the pending buffer, and pushes an edge (reference, node id) for every
\* reference in those attributes' arguments; [nameHint("x")], [layout(%5)],
\* let %9 : Void = typeLayout gives %9 the two attributes and the edge
\* (%5, %9).
C6_AttributeAttachment ==
    [][nodes' # nodes =>
        LET created == nodes'[CHOOSE k \in 1..Len(nodes') :
                                  nodes'[k].lineIndex = index]
            pushed  == SubSeq(edges', Len(edges) + 1, Len(edges'))
        IN  /\ [n \in 1..Len(created.attributes) |->
                   created.attributes[n].raw]
                 = AttributeLinesBetween(LastEntityLine + 1, index - 1)
            /\ pendingAttributes' = <<>>
            /\ \A n \in 1..Len(created.attributes) :
                 \A r \in 1..Len(findAllReferences(
                                     created.attributes[n].args)) :
                     HasEdge(pushed,
                             findAllReferences(created.attributes[n].args)[r],
                             created.id)
            /\ (lines = <<AttrNameHint, AttrLayout, LetTypeLayout>>
                  /\ index = 2)
               => /\ created.id = Id_9
                  /\ [n \in 1..Len(created.attributes) |->
                         created.attributes[n].raw]
                       = <<AttrNameHint, AttrLayout>>
                  /\ HasEdge(pushed, Id_5, Id_9)]_vars

\* The example of C6 has been parsed: %9 carries two attributes.
C6_Witness ==
    /\ pc = "done"
    /\ lines = <<AttrNameHint, AttrLayout, LetTypeLayout>>
    /\ MapHas(nodes, Id_9)
    /\ Len(MapGet(nodes, Id_9).attributes) = 2
    /\ HasEdge(edges, Id_5, Id_9)
    /\ pendingAttributes = <<>>

\* The line matches one of the shapes tried before the void operation.
MatchesEarlierShape(cleanLine) ==
    \/ attributeRegex(cleanLine).matched
    \/ instructionRegex(cleanLine).matched
    \/ blockRegex(cleanLine).matched
    \/ funcRegex(cleanLine).matched
    \/ globalParamRegex(cleanLine).matched
    \/ witnessTableRegex(cleanLine).matched
    \/ structRegex(cleanLine).matched
    \/ paramRegex(cleanLine).matched

\* The whole line is OPCODE(args).
IsOpcodeWithArgs(cleanLine) ==
    /\ cleanLine # <<>>
    /\ IsWord(cleanLine[1])
    /\ WordEnd(cleanLine, 1) < Len(cleanLine)
    /\ cleanLine[WordEnd(cleanLine, 1)] = "("
    /\ cleanLine[Len(cleanLine)] = ")"

\* The whole line is OPCODE.
IsBareOpcode(cleanLine) ==
    cleanLine # <<>> /\ \A k \in 1..Len(cleanLine) : IsWord(cleanLine[k])

OpcodeOf(cleanLine) == SubSeq(cleanLine, 1, WordEnd(cleanLine, 1) - 1)
ArgsOf(cleanLine) ==
    SubSeq(cleanLine, WordEnd(cleanLine, 1) + 1, Len(cleanLine) - 1)

\* C7: a line OPCODE(args) without = that matches no earlier shape, at
\* 0-based index N, yields exactly one node line_N, an Instruction with
\* that opcode, created by that line, and an edge (ref, line_N) for each
\* operand that carries a reference; store(%26, %25) yields opcode store
\* and the edges (%26, line_N) and (%25, line_N).
C7_VoidOpSynthesis ==
    pc = "done" =>
      \A N \in 0..(Len(lines) - 1) :
        LET cleanLine == Trim(lines[N + 1])
            lineN     == <<"l","i","n","e","_">> \o Digits(N)
        IN  (/\ IsOpcodeWithArgs(cleanLine)
             /\ ~Includes(cleanLine, <<"=">>)
             /\ ~MatchesEarlierShape(cleanLine))
            => /\ Cardinality({k \in 1..Len(nodes) : nodes[k].id = lineN}) = 1
               /\ MapGet(nodes, lineN).type = "Instruction"
               /\ MapGet(nodes, lineN).opcode = OpcodeOf(cleanLine)
               /\ MapGet(nodes, lineN).lineIndex = N
               /\ \A n \in 1..Len(parseOperands(ArgsOf(cleanLine))) :
                    parseOperands(ArgsOf(cleanLine))[n].refId # Undefined
                      => HasEdge(edges,
                                 parseOperands(ArgsOf(cleanLine))[n].refId,
                                 lineN)
               /\ lines[N + 1] = StoreLine
                    => /\ MapGet(nodes, lineN).opcode
                            = <<"s","t","o","r","e">>
                       /\ HasEdge(edges, Id_26, lineN)
                       /\ HasEdge(edges, Id_25, lineN)

\* store(%26, %25) on the second line has become the node line_1.
C7_Witness ==
    /\ pc = "done"
    /\ Len(lines) >= 2
    /\ lines[2] = StoreLine
    /\ MapHas(nodes, <<"l","i","n","e","_","1">>)
    /\ HasEdge(edges, Id_26, <<"l","i","n","e","_","1">>)

\* The line has none of the recognised shapes.
Unrecognised(line) ==
    /\ ~MatchesEarlierShape(Trim(line))
    /\ ~IsBareOpcode(Trim(line))
    /\ ~IsOpcodeWithArgs(Trim(line))

\* C9 as stated: a text made only of lines with none of the recognised
\* shapes parses to no node, no edge and no function.
C9_GracefulDegradation ==
    (pc = "done" /\ \A k \in 1..Len(lines) : Unrecognised(lines[k]))
        => nodes = <<>> /\ edges = <<>> /\ functions = <<>>

\* The 0-based indices of the block and function headers before line i.
HeadersBefore(i) ==
    {j \in 0..(i - 1) : FactsOf(lines[j + 1]).kind \in {"block", "func"}}

\* C10: a let or param line whose last preceding header is `block %B` is
\* recorded with enclosing block %B, and one whose last preceding header
\* is a func header is recorded with no enclosing block.
C10_ScopeTracking ==
    \A k \in 1..Len(nodes) :
      LET i == nodes[k].lineIndex
      IN  (FactsOf(lines[i + 1]).kind \in {"let", "param"}
             /\ HeadersBefore(i) # {})
          => LET header == FactsOf(lines[Max(HeadersBefore(i)) + 1])
             IN  nodes[k].parentBlockId =
                   IF header.kind = "block" THEN header.id ELSE Undefined

\* After a block header and a func header, a let line has been recorded
\* with no enclosing block.
C10_Witness ==
    /\ pc = "done"
    /\ lines = <<BlockLine, FuncLine, LetTypeLayout>>
    /\ MapHas(nodes, Id_9)
    /\ MapGet(nodes, Id_9).parentBlockId = Undefined

(***************************************************************************)
(* Global parameters.                                                      *)
(***************************************************************************)
Id_g == <<"%","g">>
Id_h == <<"%","h">>

\* The global parameter lines of the catalogue: the id on the line and the
\* distinct references of its type, in order of first occurrence.
GlobalShapes ==
    {[line |-> GlobalLine, id |-> Id_g, refs |-> <<Id_9>>],
     [line |-> GlobalPairLine, id |-> Id_h, refs |-> <<Id_9, Id_5>>]}

\* C17: a line `ID : TYPE = global_param` that is not a let line produces
\* a Variable node with opcode global_param whose operands are exactly one
\* synthetic operand per distinct reference of TYPE (raw = refId = that
\* reference, in order of first occurrence), and the type scan pushes
\* exactly one edge (reference, ID) per such reference, after the edges of
\* the pending attributes.
C17_GlobalParameter ==
    [][\A g \in GlobalShapes :
         (pc = "scan" /\ index' = index + 1 /\ lines[index + 1] = g.line)
         => \A after \in {[nodes |-> nodes', edges |-> edges']} :
              /\ MapHas(after.nodes, g.id)
              /\ MapGet(after.nodes, g.id).type = "Variable"
              /\ MapGet(after.nodes, g.id).opcode = GlobalParam
              /\ MapGet(after.nodes, g.id).lineIndex = index
              /\ MapGet(after.nodes, g.id).operands
                   = [n \in 1..Len(g.refs) |->
                         [raw |-> g.refs[n], refId |-> g.refs[n]]]
              /\ after.edges
                   = edges
                     \o AttributeEdges(pendingAttributes, g.id)
                     \o [n \in 1..Len(g.refs) |->
                            [from |-> g.refs[n], to |-> g.id]]]_vars

\* %h : Pair(%9, %5, %9) = global_param has been parsed after an attribute
\* line: %h has the two operands %9 and %5 and the two type edges follow
\* the edges of the attribute.
C17_Witness ==
    /\ pc = "done"
    /\ lines = <<AttrLayout, GlobalPairLine>>
    /\ MapHas(nodes, Id_h)
    /\ Len(MapGet(nodes, Id_h).operands) = 2
    /\ SubSeq(edges, Len(edges) - 1, Len(edges))
         = <<[from |-> Id_9, to |-> Id_h], [from |-> Id_5, to |-> Id_h]>>
    /\ Len(edges) > 2

(***************************************************************************)
(* Top-level definitions.                                                  *)
(***************************************************************************)
\* The 0-based indices of the block headers before line i.
BlockHeadersBefore(i) ==
    {j \in 0..(i - 1) : FactsOf(lines[j + 1]).kind = "block"}

\* Line i is lexically inside no block: no block header comes before it,
\* or a closing brace or a func header stands between the last block
\* header and it.
OutsideEveryBlock(i) ==
    \/ BlockHeadersBefore(i) = {}
    \/ \E j \in (Max(BlockHeadersBefore(i)) + 1)..(i - 1) :
          \/ Trim(lines[j + 1]) = BraceLine
          \/ FactsOf(lines[j + 1]).kind = "func"

\* C18 as stated: a let, global parameter, witness table or void operation
\* line that is lexically inside no block, such as one that follows the
\* closing brace of a function body, produces a node with no enclosing
\* block.
C18_TopLevelUnset ==
    \A k \in 1..Len(nodes) :
      (/\ FactsOf(lines[nodes[k].lineIndex + 1]).kind
             \in {"let", "global", "witness", "void"}
       /\ OutsideEveryBlock(nodes[k].lineIndex))
      => nodes[k].parentBlockId = Undefined

(***************************************************************************)
(* Order of the node map.                                                  *)
(***************************************************************************)
\* C19 as stated: iterating the returned node map in insertion order
\* yields nodes with strictly increasing line index, also when the same
\* id is defined on more than one line.
C19_MapOrderIsSourceOrder ==
    pc = "done"
    => \A k \in 1..(Len(nodes) - 1) :
         nodes[k].lineIndex < nodes[k + 1].lineIndex

(***************************************************************************)
(* Edges of the operands of a bound instruction or void operation.         *)
(***************************************************************************)
\* How often the pair (from, to) stands in the edge list.
EdgeCount(es, from, to) ==
    Cardinality({n \in 1..Len(es) : es[n] = [from |-> from, to |-> to]})

\* The reference r occurs somewhere in the raw text of the operand.
Mentions(op, r) ==
    \E n \in 1..Len(findAllReferences(op.raw)) :
        findAllReferences(op.raw)[n] = r

\* The edges (r, id) a line owes to its pending attributes and, for a let
\* line, to the references of its type.
EdgesBesideOperands(node, isLet, pending, r) ==
    EdgeCount(AttributeEdges(pending, node.id), r, node.id)
    + (IF isLet /\ \E n \in 1..Len(findAllReferences(node.dataType)) :
                      findAllReferences(node.dataType)[n] = r
       THEN 1 ELSE 0)

\* The references a scanned line can have pushed edges from.
RefsOfStep(node, pushed) ==
    {pushed[n].from : n \in 1..Len(pushed)}
    \cup UNION {{findAllReferences(node.operands[n].raw)[m] :
                    m \in 1..Len(findAllReferences(node.operands[n].raw))} :
                 n \in 1..Len(node.operands)}

\* The edges of the operands as the claim states them: one for the primary
\* reference of each operand and one more for every distinct reference of
\* its raw text, the primary one included.
StatedOperandEdges(node, r) ==
    Cardinality({n \in 1..Len(node.operands) : node.operands[n].refId = r})
    + Cardinality({n \in 1..Len(node.operands) :
                     Mentions(node.operands[n], r)})

\* The edges of the operands with the primary reference left out of the
\* deep scan: one per operand for every distinct reference of its raw text.
OnceOperandEdges(node, r) ==
    Cardinality({n \in 1..Len(node.operands) :
                   Mentions(node.operands[n], r)})

\* C20 as stated: for a bound instruction or void operation every distinct
\* reference found in an operand's raw text contributes its own edge in
\* addition to the edge of the operand's primary reference, so that the
\* bare operand %X contributes the pair (%X, node id) twice;
\* store(%26, %25) with no pending attribute pushes four edges.
C20_DeepScanAdditive ==
    [][(/\ pc = "scan"
        /\ index' = index + 1
        /\ FactsOf(lines[index + 1]).kind \in {"let", "void"})
       => \A node \in {MapGet(nodes',
                               NodeId(FactsOf(lines[index + 1]), index))} :
          \A pushed \in {SubSeq(edges', Len(edges) + 1, Len(edges'))} :
            /\ \A r \in RefsOfStep(node, pushed) :
                 EdgeCount(pushed, r, node.id)
                   = StatedOperandEdges(node, r)
                     + EdgesBesideOperands(
                           node, FactsOf(lines[index + 1]).kind = "let",
                           pendingAttributes, r)
            /\ (lines[index + 1] = StoreLine /\ pendingAttributes = <<>>)
               => pushed = <<[from |-> Id_26, to |-> node.id],
                             [from |-> Id_26, to |-> node.id],
                             [from |-> Id_25, to |-> node.id],
                             [from |-> Id_25, to |-> node.id]>>]_vars

\* C20, amended: for a bound instruction or void operation every distinct
\* reference found in an operand's raw text contributes exactly one edge
\* into the node for that operand, the primary reference of the operand
\* included, with no deduplication across operands, the type or the
\* attributes; the bare operand %X contributes the pair (%X, node id)
\* once, and store(%26, %25) with no pending attribute pushes two edges.
C20_DeepScanOnce ==
    [][(/\ pc = "scan"
        /\ index' = index + 1
        /\ FactsOf(lines[index + 1]).kind \in {"let", "void"})
       => \A node \in {MapGet(nodes',
                               NodeId(FactsOf(lines[index + 1]), index))} :
          \A pushed \in {SubSeq(edges', Len(edges) + 1, Len(edges'))} :
            /\ \A r \in RefsOfStep(node, pushed) :
                 EdgeCount(pushed, r, node.id)
                   = OnceOperandEdges(node, r)
                     + EdgesBesideOperands(
                           node, FactsOf(lines[index + 1]).kind = "let",
                           pendingAttributes, r)
            /\ (lines[index + 1] = StoreLine /\ pendingAttributes = <<>>)
               => pushed = <<[from |-> Id_26, to |-> node.id],
                             [from |-> Id_25, to |-> node.id]>>]_vars

\* store(%26, %25) and let %1 : Vec(%9) = f(g(%2), %9) have been parsed:
\* each bare operand gave one edge, the nested %2 gave one, and %9 gave one
\* as an operand and one as a reference of the type.
C20_Witness ==
    /\ pc = "done"
    /\ lines = <<StoreLine, LetNested>>
    /\ EdgeCount(edges, Id_26, SyntheticId(0)) = 1
    /\ EdgeCount(edges, Id_25, SyntheticId(0)) = 1
    /\ EdgeCount(edges, <<"%","2">>, <<"%","1">>) = 1
    /\ EdgeCount(edges, Id_9, <<"%","1">>) = 2
    /\ Len(edges) = 5

(***************************************************************************)
(* Attribute lines at the end of a pass text.                              *)
(***************************************************************************)
\* The 0-based indices of the attribute lines that no entity line follows.
TrailingAttributes ==
    {i \in (LastEntityLine + 1)..(Len(lines) - 1) :
        FactsOf(lines[i + 1]).kind = "attribute"}

\* The lines of the text with those attribute lines taken out.
WithoutTrailingAttributes(trailing) ==
    LET placed == [k \in 1..Len(lines) |-> [at |-> k - 1, line |-> lines[k]]]
        kept   == SelectSeq(placed, LAMBDA l : l.at \notin trailing)
    IN  [n \in 1..Len(kept) |-> kept[n].line]

\* C21: attribute lines that no entity line follows before the end of the
\* text are attached to no node and contribute no edge, and the parse does
\* not fail: nodes, edges and functions are those of the same text without
\* these attribute lines.
C21_TrailingAttributesDropped ==
    (pc = "done" /\ TrailingAttributes # {})
    => \A graph \in {parseSlangIR(JoinLines(
                         WithoutTrailingAttributes(TrailingAttributes)))} :
         /\ nodes = graph.nodes
         /\ edges = graph.edges
         /\ functions = graph.functions

\* let %9 : Void = typeLayout followed by [layout(%5)] has been parsed: the
\* node has no attribute, there is no edge, and the attribute is still
\* pending at the return.
C21_Witness ==
    /\ pc = "done"
    /\ lines = <<LetTypeLayout, AttrLayout>>
    /\ Len(nodes) = 1
    /\ nodes[1].attributes = <<>>
    /\ edges = <<>>
    /\ Len(pendingAttributes) = 1

(***************************************************************************)
(* Operands of the returned graph.                                         *)
(***************************************************************************)
\* The argument text of the catalogue lines that have one: what stands
\* between the parenthesis after the opcode or attribute name and the last
\* closing parenthesis.  The other lines have no arguments.
ArgumentText(line) ==
    IF line = StoreLine THEN SubSeq(line, 7, Len(line) - 1)
    ELSE IF line = FooLine THEN SubSeq(line, 5, Len(line) - 1)
    ELSE IF line = LetNested THEN SubSeq(line, Len(line) - 9, Len(line) - 1)
    ELSE IF line = AttrLayout THEN SubSeq(line, 9, Len(line) - 2)
    ELSE IF line = AttrNameHint THEN SubSeq(line, 11, Len(line) - 2)
    ELSE <<>>

\* The operands are the trimmed depth-zero segments of the argument text,
\* a blank last segment giving no operand.
RawsAreSegments(ops, args) ==
    IF IsBlank(args) THEN ops = <<>>
    ELSE /\ Len(ops) = Cardinality(DepthZeroCommas(args))
                       + (IF IsBlank(Segment(args,
                                 Cardinality(DepthZeroCommas(args)) + 1))
                          THEN 0 ELSE 1)
         /\ \A n \in 1..Len(ops) : ops[n].raw = Trim(Segment(args, n))

\* An identifier starts at position p of the text: a sigil and a word
\* character.
IdentifierAt(raw, p) ==
    p < Len(raw) /\ raw[p] = "%" /\ IsWord(raw[p + 1])

\* The reference of the operand is the first identifier of its raw text,
\* as long as the word characters run, and is absent exactly when the raw
\* text holds no identifier.
ReferenceIsFirstIdentifier(op) ==
    IF op.refId = Undefined
    THEN \A p \in 1..Len(op.raw) : ~IdentifierAt(op.raw, p)
    ELSE \E p \in 1..Len(op.raw) :
           /\ IdentifierAt(op.raw, p)
           /\ \A q \in 1..(p - 1) : ~IdentifierAt(op.raw, q)
           /\ p + Len(op.refId) - 1 <= Len(op.raw)
           /\ op.refId = SubSeq(op.raw, p, p + Len(op.refId) - 1)
           /\ Len(op.refId) >= 2
           /\ \A k \in 2..Len(op.refId) : IsWord(op.refId[k])
           /\ \/ p + Len(op.refId) - 1 = Len(op.raw)
              \/ ~IsWord(op.raw[p + Len(op.refId)])

\* The operands of the attributes of a node follow the two rules.
AttributeOperandsHold(node) ==
    \A a \in 1..Len(node.attributes) :
      /\ RawsAreSegments(node.attributes[a].operands,
                         ArgumentText(node.attributes[a].raw))
      /\ \A n \in 1..Len(node.attributes[a].operands) :
           ReferenceIsFirstIdentifier(node.attributes[a].operands[n])

\* C22 as stated: in the returned graph every operand of every node and of
\* every attribute has the trimmed argument segment as raw, and its
\* reference, when present, is the first identifier of raw and is absent
\* exactly when raw holds no identifier.
C22_OperandInvariantAsStated ==
    pc = "done"
    => \A k \in 1..Len(nodes) :
         /\ RawsAreSegments(nodes[k].operands,
                            ArgumentText(nodes[k].originalLine))
         /\ \A n \in 1..Len(nodes[k].operands) :
              ReferenceIsFirstIdentifier(nodes[k].operands[n])
         /\ AttributeOperandsHold(nodes[k])

\* C22, amended: in the returned graph every operand parsed from an
\* argument list (the operands of bound instructions, of void operations
\* and of attributes) has the trimmed argument segment as raw; and the
\* reference of every operand, the synthetic operands of global parameter
\* and witness table nodes included, when present is the first identifier
\* of raw and is absent exactly when raw holds no identifier.
C22_OperandInvariant ==
    pc = "done"
    => \A k \in 1..Len(nodes) :
         /\ nodes[k].opcode \notin {GlobalParam, Text_witness_table}
            => RawsAreSegments(nodes[k].operands,
                               ArgumentText(nodes[k].originalLine))
         /\ \A n \in 1..Len(nodes[k].operands) :
              ReferenceIsFirstIdentifier(nodes[k].operands[n])
         /\ AttributeOperandsHold(nodes[k])

\* [nameHint("x")] and let %1 : Vec(%9) = f(g(%2), %9) have been parsed:
\* the operand of the attribute has no reference, and the first operand of
\* %1 is g(%2) with reference %2.
C22_Witness ==
    /\ pc = "done"
    /\ lines = <<AttrNameHint, LetNested>>
    /\ Len(nodes) = 1
    /\ Len(nodes[1].operands) = 2
    /\ nodes[1].operands[1].raw = <<"g","(","%","2",")">>
    /\ nodes[1].operands[1].refId = <<"%","2">>
    /\ Len(nodes[1].attributes) = 1
    /\ nodes[1].attributes[1].operands
         = <<[raw |-> <<"\"","x","\"">>, refId |-> Undefined]>>

(***************************************************************************)
(* Cross-reference from the nodes to the source lines.                     *)
(***************************************************************************)
\* How many line feeds the text holds.
LineFeeds(text) == Cardinality({k \in 1..Len(text) : text[k] = LF})

\* C23: the rawLines returned are the input split at its line feeds with
\* every line kept, blank, comment and unclassified lines included; and
\* the line index of every node is an index of rawLines at which the
\* original line of the node stands.
C23_SourceCrossReference ==
    pc = "done"
    => /\ Len(lines) = LineFeeds(input) + 1
       /\ \A k \in 1..Len(lines) : ~Includes(lines[k], <<LF>>)
       /\ JoinLines(lines) = input
       /\ \A k \in 1..Len(nodes) :
            /\ nodes[k].lineIndex \in 0..(Len(lines) - 1)
            /\ lines[nodes[k].lineIndex + 1] = nodes[k].originalLine

\* An empty line, a comment and let %9 : Void = typeLayout have been
\* parsed: three raw lines, and the node of %9 points at the third.
C23_Witness ==
    /\ pc = "done"
    /\ lines = <<BlankLine, CommentLine, LetTypeLayout>>
    /\ Len(nodes) = 1
    /\ nodes[1].lineIndex = 2
    /\ nodes[1].originalLine = LetTypeLayout

(***************************************************************************)
(* Lines that create no entity.                                            *)
(***************************************************************************)
\* A blank line, a comment line, a line that starts with the marker, or a
\* line with none of the recognised shapes.
IsIgnoredLine(line) ==
    \/ Trim(line) = <<>>
    \/ StartsWith(Trim(line), <<"/","/">>)
    \/ StartsWith(Trim(line), Marker)
    \/ Unrecognised(line)

\* C24 as stated: the scan of a blank line, a comment line, a line that
\* starts with ### or a line that matches no shape adds no node, no edge
\* and no function and leaves the pending attributes and the open block
\* as they are; the scan of an attribute line changes only the pending
\* attributes, by appending one.
C24_NonEntityFrame ==
    [][(pc = "scan" /\ index' = index + 1)
       => /\ IsIgnoredLine(lines[index + 1])
             => UNCHANGED <<nodes, edges, functions, pendingAttributes,
                            currentBlockId>>
          /\ attributeRegex(Trim(lines[index + 1])).matched
             => /\ UNCHANGED <<nodes, edges, functions, currentBlockId>>
                /\ \A after \in {pendingAttributes'} :
                     /\ Len(after) = Len(pendingAttributes) + 1
                     /\ SubSeq(after, 1, Len(pendingAttributes))
                          = pendingAttributes]_vars

(***************************************************************************)
(* Responses to requests the user has moved on from.                       *)
(***************************************************************************)
\* The handler that ran last replaced the dump by a multi-pass paste or
\* selected another pass.
DumpOrPassJustChanged ==
    \/ pc = "selectPass"
    \/ pc = "handleCodeChange" /\ isMultiPassDump(input)

\* C25 as stated: a response to an analyzeFlow request issued before the
\* dump was replaced by a multi-pass paste or another pass was selected
\* does not set the displayed global analysis; stated for the response
\* that arrives right after the change, whose request is then still in
\* flight from before it.
C25_SupersededAnalysisIgnored ==
    [][(DumpOrPassJustChanged /\ inFlight # <<>>
          /\ pc' = "analysisSettles")
       => globalAnalysis' = globalAnalysis]_vars

(***************************************************************************)
(* The kind of global parameter nodes.                                     *)
(***************************************************************************)
\* C26 as stated: every node of the returned graph whose opcode is
\* global_param is a Variable, never an Instruction, whatever the form of
\* the line that defined it, the form let %id : TYPE = global_param
\* included.
C26_GlobalParamIsVariable ==
    pc = "done"
    => \A k \in 1..Len(nodes) :
         nodes[k].opcode = GlobalParam => nodes[k].type = "Variable"

(***************************************************************************)
(* The current pass.                                                       *)
(***************************************************************************)
\* C27: once the pass list has been set on mount, after any pass
\* selections and edits, with or without delimiter markers, the pass list
\* is not empty and selectedPassIndex is an index into it, so that the
\* current pass is defined.
C27_CurrentPassDefined ==
    /\ Len(passes) >= 1
    /\ selectedPassIndex \in 0..(Len(passes) - 1)

\* A dump with the single pass A has been pasted: the pass list holds that
\* pass alone, it is the selected one, and its timer is pending.
C27_Witness ==
    /\ pc = "handleCodeChange"
    /\ Len(passes) = 1
    /\ passes[1].name = <<"A">>
    /\ selectedPassIndex = 0
    /\ Len(timers) = 1

(***************************************************************************)
(* Delimiter lines and pass contents.                                      *)
(***************************************************************************)
\* The positions of the name lines of the boundaries met from line i on;
\* a name line is not itself the start of a boundary.
RECURSIVE NameLinesFrom(_, _)
NameLinesFrom(ls, i) ==
    IF i > Len(ls) THEN {}
    ELSE IF BoundaryAt(ls, i) THEN {i + 1} \cup NameLinesFrom(ls, i + 2)
    ELSE NameLinesFrom(ls, i + 1)

\* The lines of the input that begin with ### and are neither a ### line
\* nor the name line of a boundary.
OtherMarkedLines(ls) ==
    {i \in 1..Len(ls) : /\ StartsWith(Trim(ls[i]), Marker)
                        /\ Trim(ls[i]) # Marker
                        /\ i \notin NameLinesFrom(ls, 1)}

\* The lines of all the contents, one after the other.
ContentLines(ps) ==
    Flatten([k \in 1..Len(ps) |-> SplitLines(ps[k].content)])

\* C28 as stated: when the input holds at least one pass boundary, no
\* content of a returned pass holds a ### line, and the contents hold no
\* more lines that begin with ### than the input has outside its
\* boundaries: every ### line and every name line is consumed, also when
\* the only named pass has an all-blank body.
C28_DelimitersConsumed ==
    (pc = "done" /\ NameLinesFrom(SplitLines(ReplaceCRLF(input)), 1) # {})
    => \A contents \in {ContentLines(passes)} :
         /\ \A n \in 1..Len(contents) : Trim(contents[n]) # Marker
         /\ Cardinality({n \in 1..Len(contents) :
                            StartsWith(Trim(contents[n]), Marker)})
              <= Cardinality(OtherMarkedLines(
                                 SplitLines(ReplaceCRLF(input))))

(***************************************************************************)
(* The InfoPanel component: the node it is given, the explanation it       *)
(* shows and the request for one.  The node and the context lines are      *)
(* props; a step is a change of the props or a handler, with the render    *)
(* and the effects it causes.                                              *)
(***************************************************************************)
\* The graph the panel is given nodes of.
PanelCode == JoinLines(<<BlockLine, LetTypeLayout, StoreLine>>)

\* InfoPanel after its first render, with no node selected.
InitPanel ==
    /\ input = PanelCode
    /\ pc = "mounted"
    /\ bodyA = <<>>
    /\ bodyB = <<>>
    /\ operands = <<>>
    /\ passes = <<>>
    /\ IdleIR
    /\ selectedPassIndex = 0
    /\ parsedData = parseSlangIR(PanelCode)
    /\ timers = <<>>
    /\ globalAnalysis = Null
    /\ isAnalyzing = FALSE
    /\ inFlight = <<>>
    /\ reply = NullRecord
    /\ IdleView

\* The prop selectedNode changes, to another node of the graph or to null;
\* the effect on [selectedNode] sets the explanation to null.
SelectNode ==
    /\ pc # "start"
    /\ \E node \in {parsedData.nodes[k] : k \in 1..Len(parsedData.nodes)}
                    \cup {NullRecord} :
           /\ node # selectedNode
           /\ selectedNode' = node
    /\ explanation' = Null
    /\ pc' = "selectNode"
    /\ UNCHANGED <<input, bodyA, bodyB, passes, operands, results, loading,
                   searchTerm, currentMatchIndex>>
    /\ UNCHANGED irVars
    /\ UNCHANGED appVars

\* handleExplain up to its await: the button is there when a node is
\* selected and is disabled while loading; the request is for the node
\* selected at the click.
HandleExplain ==
    /\ selectedNode # NullRecord
    /\ ~loading
    /\ loading' = TRUE
    /\ inFlight' = Append(inFlight, selectedNode)
    /\ pc' = "handleExplain"
    /\ UNCHANGED <<input, bodyA, bodyB, passes, operands, results,
                   selectedNode, explanation, searchTerm, currentMatchIndex,
                   selectedPassIndex, parsedData, timers, globalAnalysis,
                   isAnalyzing, reply>>
    /\ UNCHANGED irVars

\* explainIRNode settles and handleExplain runs to its end:
\* setExplanation(result), setLoading(false).
ExplainSettles ==
    /\ loading
    /\ inFlight # <<>>
    /\ \E outcome \in Outcomes :
         \E r \in {explainIRNode(Head(inFlight), parsedData.rawLines,
                                 outcome)} :
           /\ reply' = [service |-> "explainIRNode", outcome |-> outcome,
                        threw |-> r.threw, value |-> r.value]
           /\ explanation' = IF r.threw THEN explanation ELSE r.value
           /\ loading' = IF r.threw THEN loading ELSE FALSE
    /\ inFlight' = Tail(inFlight)
    /\ pc' = "explainSettles"
    /\ UNCHANGED <<input, bodyA, bodyB, passes, operands, results,
                   selectedNode, searchTerm, currentMatchIndex,
                   selectedPassIndex, parsedData, timers, globalAnalysis,
                   isAnalyzing>>
    /\ UNCHANGED irVars

NextPanel == SelectNode \/ HandleExplain \/ ExplainSettles

SpecPanel == InitPanel /\ [][NextPanel]_vars

\* C29 as stated: the explanation shown belongs to the node selected; when
\* the node changes while a request is in flight the explanation is reset
\* to null, and the late response, which is for the node selected before,
\* is not shown for the new node.
C29_ExplanationOfSelectedNode ==
    [][/\ (pc' = "selectNode") => explanation' = Null
       /\ (/\ pc' = "explainSettles"
           /\ inFlight # <<>>
           /\ Head(inFlight) # selectedNode)
          => explanation' = explanation]_vars

(***************************************************************************)
(* The CodeEditor component in view mode: the code it is given, the search *)
(* term and the index of the current match.  The code is a prop; a step is *)
(* a change of the prop or a handler, with the render and the effects it   *)
(* causes.                                                                 *)
(***************************************************************************)
\* The codes the editor is given, one per pass that can be selected.
ThreeHitsCode == JoinLines(<<PoisonLine, StoreLine, PoisonLine>>)
TwoHitsCode   == JoinLines(<<StoreLine, BraceLine, PoisonLine>>)
EditorCodes   == {ThreeHitsCode, TwoHitsCode, StoreLine, BraceLine}

\* The terms typed into the search box.
SearchTerms == {<<>>, <<"O">>, <<"P">>, <<"z">>, <<" ">>}

\* String.prototype.toLowerCase, on ASCII text
UpperCase == <<"A","B","C","D","E","F","G","H","I","J","K","L","M","N","O","P","Q","R","S","T","U","V","W","X","Y","Z">>
LowerCase == <<"a","b","c","d","e","f","g","h","i","j","k","l","m","n","o","p","q","r","s","t","u","v","w","x","y","z">>
toLowerCase(s) ==
    [k \in 1..Len(s) |->
        IF \E u \in 1..Len(UpperCase) : UpperCase[u] = s[k]
        THEN LowerCase[CHOOSE u \in 1..Len(UpperCase) : UpperCase[u] = s[k]]
        ELSE s[k]]

\* matches: the indices, from 0, of the lines that include the term,
\* whatever the case; none for a term that is empty or blank.
matches(code, term) ==
    IF Trim(term) = <<>> THEN <<>>
    ELSE LET codeLines == SplitLines(code)
             lowerTerm == toLowerCase(term)
         IN  SelectSeq([k \in 1..Len(codeLines) |-> k - 1],
                       LAMBDA idx :
                           Includes(toLowerCase(codeLines[idx + 1]),
                                    lowerTerm))

\* a % n of JavaScript: NaN when the dividend is NaN or the divisor is 0.
\* The dividends of the editor are negative only when the divisor is 0.
Remainder(a, n) ==
    IF a.nan \/ n = 0 THEN NaN ELSE Num(a.value % n)

\* prev + d, NaN staying NaN
Plus(a, d) == IF a.nan THEN NaN ELSE Num(a.value + d)

InitEditor ==
    /\ input \in EditorCodes
    /\ pc = "mounted"
    /\ bodyA = <<>>
    /\ bodyB = <<>>
    /\ operands = <<>>
    /\ passes = <<>>
    /\ IdleIR
    /\ IdleApp
    /\ IdleView

\* setSearchTerm: typing in the box, the clear button, or the edit toggle
\* (term ''); the effect on [searchTerm] sets the index to 0.
ChangeSearchTerm ==
    /\ \E term \in SearchTerms :
           /\ term # searchTerm
           /\ searchTerm' = term
    /\ currentMatchIndex' = Num(0)
    /\ pc' = "setSearchTerm"
    /\ UNCHANGED <<input, bodyA, bodyB, passes, operands, results,
                   selectedNode, explanation, loading>>
    /\ UNCHANGED irVars
    /\ UNCHANGED appVars

\* nextMatch: the button is rendered while the term is not empty, and is
\* never disabled.
NextMatch ==
    /\ searchTerm # <<>>
    /\ currentMatchIndex' =
           Remainder(Plus(currentMatchIndex, 1),
                     Len(matches(input, searchTerm)))
    /\ pc' = "nextMatch"
    /\ UNCHANGED <<input, bodyA, bodyB, passes, operands, results,
                   selectedNode, explanation, loading, searchTerm>>
    /\ UNCHANGED irVars
    /\ UNCHANGED appVars

\* prevMatch: as nextMatch, one back.
PrevMatch ==
    /\ searchTerm # <<>>
    /\ \E n \in {Len(matches(input, searchTerm))} :
           currentMatchIndex' = Remainder(Plus(currentMatchIndex, n - 1), n)
    /\ pc' = "prevMatch"
    /\ UNCHANGED <<input, bodyA, bodyB, passes, operands, results,
                   selectedNode, explanation, loading, searchTerm>>
    /\ UNCHANGED irVars
    /\ UNCHANGED appVars

\* The prop code changes (another pass is selected, or the pass is edited
\* from outside): matches is recomputed, no effect touches the index.
ChangeCode ==
    /\ \E code \in EditorCodes :
           /\ code # input
           /\ input' = code
    /\ pc' = "codeChanged"
    /\ UNCHANGED <<bodyA, bodyB, passes, operands, results>>
    /\ UNCHANGED viewVars
    /\ UNCHANGED irVars
    /\ UNCHANGED appVars

NextEditor == ChangeSearchTerm \/ NextMatch \/ PrevMatch \/ ChangeCode

SpecEditor == InitEditor /\ [][NextEditor]_vars

\* C30 as stated: whatever the term changes, next and previous clicks and
\* code changes so far, currentMatchIndex is an integer from 0 up to, not
\* including, matches.length when there are matches, and is 0 when there
\* are none.
C30_MatchIndexInRange ==
    \A m \in {matches(input, searchTerm)} :
        IF m # <<>>
        THEN /\ ~currentMatchIndex.nan
             /\ 0 <= currentMatchIndex.value
             /\ currentMatchIndex.value < Len(m)
        ELSE currentMatchIndex = Num(0)

====
